---- MODULE Spec2Model ----
(***************************************************************************)
(* The scrape-and-persist engine of onlyfans-deals-finder:                 *)
(*   - the History Store (src/src/database.py): scrape_runs, users,        *)
(*     price_history and user_lists, written through transaction();       *)
(*   - the Scroll-and-Collect Loop (src/src/list_scraper.py): scrape_list  *)
(*     with its seen-set, its exhaustion counter and the watchdog.         *)
(* Spec is one OnlyFansScraper instance running scrape_list against its    *)
(* Database; StoreSpec is the Database API called directly; ParseSpec is   *)
(* the price-label parser applied to one label; WatchSpec is               *)
(* check_for_page_errors called directly; WriteSpec is write_to_database   *)
(* called directly on one element; LiveSpec is one scrape_list call run   *)
(* to its end; ListSpec is upsert_user called again and again with lists   *)
(* that come and go; QuerySpec is the store filled and then queried once;  *)
(* ImportSpec is the store filled, imported into and re-imported.          *)
(***************************************************************************)
EXTENDS Integers, Sequences, FiniteSets, TLC

\* ------------------------------------------------------------------ state
VARIABLES
    db,                  \* the SQLite store: the four tables, committed state
    clock,               \* the last value datetime.now() returned
    pc,                  \* position of the scraper instance in scrape_list
    seen_users,          \* OnlyFansScraper.seen_users (keys of the defaultdict)
    current_run_id,      \* OnlyFansScraper.current_run_id
    no_new_items_count,  \* local of scrape_list
    loop_exit,           \* how the while loop of scrape_list was left
    run_seen,            \* history: the identities whose record this run has
                         \*   sampled (what a seen-set of this run alone holds)
    resampled,           \* history: this run has sampled an identity again
    hist,                \* history: for each of this run's last 3 iterations,
                         \*   whether its sample held a new identity
    calls,               \* history: the store calls scrape_list has made
    last,                \* history: the last call the store committed, and the
                         \*   statement the latest call raised at (0: it returned)
    parse,               \* the label the price parser was last applied to, and
                         \*   what get_offer, get_price and
                         \*   get_subscription_status made of it
    checks,              \* history: the check_for_page_errors calls made
                         \*   directly, each with the page it found
    item_failure,        \* history: of the run's latest sample that held
                         \*   items that failed, the identities only those
                         \*   items showed and the new identities the others
                         \*   showed
    container,           \* whether elements matching USER_ITEM_SELECTOR appear
                         \*   on the page scrape_list navigated to
    answer,              \* the query made of the store, and the rows it
                         \*   returned
    imported,            \* history: when the latest call made of the store
                         \*   was import_csv, the file it was given, the rows
                         \*   whose upsert raised, and what it returned or
                         \*   raised
    tick                 \* the parity of the number of iterations of the
                         \*   while loop that were made to the end, where
                         \*   iterations are told apart

vars == <<db, clock, pc, seen_users, current_run_id, no_new_items_count,
          loop_exit, run_seen, resampled, hist, calls, last, parse, checks,
                   item_failure, container, answer, imported, tick>>

\* ----------------------------------------------------------------- bounds
MaxRuns == 2        \* scrape_list executions of one instance / rows of scrape_runs
MaxVisible == 2     \* items visible in one sample
MaxObs == 2         \* price_history rows up to which the store API is called
MaxTokens == 4      \* whitespace tokens of a price label
MaxChecks == 2      \* check_for_page_errors calls made directly
MaxHistory == 3     \* price_history rows up to which the store is queried
MaxUpserts == 3     \* upsert_user calls whose memberships are followed over time

\* --------------------------------------------------------- program values
NULL == -1
max_failures_off_by_one == 3 - 1
max_failures == 3

Usernames == {"alice", "bob"}
ListIds == {"L1"}
ListNames == {"A", "B", "C"}
NoneValue == [none |-> TRUE]

\* The elements of a sequence, as a set.
Range(s) == {s[i] : i \in 1..Len(s)}

\* The last n entries of a sequence.
LastN(s, n) == IF Len(s) <= n THEN s ELSE SubSeq(s, Len(s) - n + 1, Len(s))

\* A set as a sequence without repetition (the iteration order of a Python
\* set is not specified; one order is fixed here, it decides row ids only).
RECURSIVE SetToSeq(_)
SetToSeq(S) ==
    IF S = {} THEN <<>>
    ELSE LET x == CHOOSE y \in S : TRUE IN <<x>> \o SetToSeq(S \ {x})

\* ------------------------------------------------------------ the store
\* Database._init_schema: the four tables, empty.
EmptyDb ==
    [scrape_runs |-> <<>>, users |-> {}, price_history |-> <<>>, user_lists |-> <<>>]

\* Database.transaction: commit what the body did, or roll it back when the
\* body raised.
TransactionNoRollback(committed, work, raised) == work
transaction(committed, work, raised) ==
    IF raised THEN committed ELSE work

\* Database.start_scrape_run: INSERT one row with status 'running'; the new
\* row's id (AUTOINCREMENT) is its position.
start_scrape_run_completed(d, list_id, started_at, raised) ==
    transaction(d,
        [d EXCEPT !.scrape_runs = Append(@,
            [list_id |-> list_id, started_at |-> started_at, completed_at |-> NULL,
             user_count |-> 0, status |-> "completed"])],
        raised)
start_scrape_run(d, list_id, started_at, raised) ==
    transaction(d,
        [d EXCEPT !.scrape_runs = Append(@,
            [list_id |-> list_id, started_at |-> started_at, completed_at |-> NULL,
             user_count |-> 0, status |-> "running"])],
        raised)

\* cursor.lastrowid after the INSERT of start_scrape_run.
lastrowid(d) == Len(d.scrape_runs)

\* Database.complete_scrape_run: UPDATE ... WHERE id = run_id.
complete_scrape_run(d, run_id, user_count, status, now, raised) ==
    transaction(d,
        [d EXCEPT !.scrape_runs = [i \in 1..Len(@) |->
            IF i = run_id
            THEN [@[i] EXCEPT !.completed_at = now, !.user_count = user_count,
                              !.status = status]
            ELSE @[i]]],
        raised)

\* The users row of a username (SELECT ... WHERE username = ?), or none.
existing_user(d, username) ==
    {r \in d.users : r.username = username}

\* upsert_user, first statement: UPDATE the users row, or INSERT it.
write_user_replace(d, username, price, subscription_status, run_id, scraped_at) ==
    [d EXCEPT !.users = {r \in @ : r.username # username} \cup {
        [username |-> username, current_price |-> price,
         subscription_status |-> subscription_status,
         first_seen |-> scraped_at, last_seen |-> scraped_at,
         last_scraped_run_id |-> run_id]}]
write_user(d, username, price, subscription_status, run_id, scraped_at) ==
    IF existing_user(d, username) # {}
    THEN [d EXCEPT !.users = {
            IF r.username = username
            THEN [r EXCEPT !.current_price = price,
                           !.subscription_status = subscription_status,
                           !.last_seen = scraped_at,
                           !.last_scraped_run_id = run_id]
            ELSE r : r \in @}]
    ELSE [d EXCEPT !.users = @ \cup {
            [username |-> username, current_price |-> price,
             subscription_status |-> subscription_status,
             first_seen |-> scraped_at, last_seen |-> scraped_at,
             last_scraped_run_id |-> run_id]}]

\* upsert_user, second statement: always INSERT INTO price_history.
insert_price_history(d, username, price, subscription_status, run_id, scraped_at) ==
    [d EXCEPT !.price_history = Append(@,
        [username |-> username, price |-> price,
         subscription_status |-> subscription_status,
         scraped_at |-> scraped_at, scrape_run_id |-> run_id])]

\* _update_user_lists: the lists with an open row for the username.
existing_lists(d, username) ==
    {d.user_lists[i].list_name : i \in {j \in 1..Len(d.user_lists) :
        /\ d.user_lists[j].username = username
        /\ d.user_lists[j].removed_at = NULL}}

\* _update_user_lists: new_lists = set(current_lists).
new_lists_dup(current_lists) == current_lists
new_lists(current_lists) == SetToSeq(Range(current_lists))

\* A first loop that reopens the closed row of a list the username rejoins,
\* and inserts a row only for a list the username has no row for.
add_lists_reopen(d, username, current_lists, run_id, now) ==
    LET existing == existing_lists(d, username)
        had == {d.user_lists[i].list_name : i \in {j \in 1..Len(d.user_lists) :
                   d.user_lists[j].username = username}}
        to_add == SelectSeq(new_lists(current_lists), LAMBDA l : l \notin existing)
        fresh == SelectSeq(to_add, LAMBDA l : l \notin had)
    IN [d EXCEPT !.user_lists =
            [i \in 1..Len(@) |->
                IF /\ @[i].username = username
                   /\ @[i].list_name \in Range(to_add)
                THEN [@[i] EXCEPT !.removed_at = NULL]
                ELSE @[i]]
            \o [i \in 1..Len(fresh) |->
                [username |-> username, list_name |-> fresh[i], added_at |-> now,
                 removed_at |-> NULL, scrape_run_id |-> run_id]]]

\* _update_user_lists, first loop: one INSERT per list in to_add.
add_lists(d, username, current_lists, run_id, now) ==
    LET existing == existing_lists(d, username)
        to_add == SelectSeq(new_lists(current_lists), LAMBDA l : l \notin existing)
    IN [d EXCEPT !.user_lists = @ \o [i \in 1..Len(to_add) |->
            [username |-> username, list_name |-> to_add[i], added_at |-> now,
             removed_at |-> NULL, scrape_run_id |-> run_id]]]

\* _update_user_lists, second loop: UPDATE ... SET removed_at for each list in
\* to_remove; `existing` is the set read before the first loop.
remove_lists_keep(d, username, existing, current_lists, now) == d
remove_lists_every_user(d, username, existing, current_lists, now) ==
    LET to_remove == existing \ Range(new_lists(current_lists))
    IN [d EXCEPT !.user_lists = [i \in 1..Len(@) |->
            IF /\ @[i].list_name \in to_remove
               /\ @[i].removed_at = NULL
            THEN [@[i] EXCEPT !.removed_at = now]
            ELSE @[i]]]
remove_lists(d, username, existing, current_lists, now) ==
    LET to_remove == existing \ Range(new_lists(current_lists))
    IN [d EXCEPT !.user_lists = [i \in 1..Len(@) |->
            IF /\ @[i].username = username
               /\ @[i].list_name \in to_remove
               /\ @[i].removed_at = NULL
            THEN [@[i] EXCEPT !.removed_at = now]
            ELSE @[i]]]

\* Database._update_user_lists.
update_user_lists(d, username, current_lists, run_id, now) ==
    remove_lists(add_lists(d, username, current_lists, run_id, now),
                 username, existing_lists(d, username), current_lists, now)

\* The statements of upsert_user's body, in order; statement k raising
\* (fail_at = k) leaves the work of the statements before it uncommitted,
\* fail_at = 0 is the body running to its end.
\*   1: the users write   2: the price_history insert
\*   3: the first INSERT/UPDATE of _update_user_lists
\*   4: the UPDATE loop of _update_user_lists, after its INSERT loop
FailPoints == 0..4
upsert_work(d, username, price, subscription_status, lists, run_id, scraped_at, fail_at) ==
    LET s1 == write_user(d, username, price, subscription_status, run_id, scraped_at)
        s2 == insert_price_history(s1, username, price, subscription_status,
                                   run_id, scraped_at)
        s3 == add_lists(s2, username, lists, run_id, scraped_at)
        s4 == update_user_lists(s2, username, lists, run_id, scraped_at)
    IN CASE fail_at = 0 -> s4
         [] fail_at = 1 -> d
         [] fail_at = 2 -> s1
         [] fail_at = 3 -> s2
         [] fail_at = 4 -> s3

\* Database.upsert_user: the body inside `with self.transaction()`.
upsert_user(d, username, price, subscription_status, lists, run_id, scraped_at, fail_at) ==
    transaction(d,
        upsert_work(d, username, price, subscription_status, lists, run_id,
                    scraped_at, fail_at),
        fail_at # 0)

\* ------------------------------------------------------- the price parser
\* A label is a Python str, here the sequence of its characters.
LowerLetters ==
    <<"a", "b", "c", "d", "e", "f", "g", "h", "i", "j", "k", "l", "m",
      "n", "o", "p", "q", "r", "s", "t", "u", "v", "w", "x", "y", "z">>
UpperLetters ==
    <<"A", "B", "C", "D", "E", "F", "G", "H", "I", "J", "K", "L", "M",
      "N", "O", "P", "Q", "R", "S", "T", "U", "V", "W", "X", "Y", "Z">>
Digits == {"0", "1", "2", "3", "4", "5", "6", "7", "8", "9"}
\* The characters of the labels, and for each its upper-case and lower-case
\* form.
Alphabet == Range(LowerLetters) \cup Range(UpperLetters) \cup Digits
                \cup {" ", "$", ".", "%", "_", "?"}
ToUpper ==
    [c \in Alphabet |->
        IF \E k \in 1..26 : LowerLetters[k] = c
        THEN UpperLetters[CHOOSE k \in 1..26 : LowerLetters[k] = c]
        ELSE c]
ToLower ==
    [c \in Alphabet |->
        IF \E k \in 1..26 : UpperLetters[k] = c
        THEN LowerLetters[CHOOSE k \in 1..26 : UpperLetters[k] = c]
        ELSE c]

\* str.upper() and str.lower().
upper(text) == [i \in 1..Len(text) |-> ToUpper[text[i]]]
lower(text) == [i \in 1..Len(text) |-> ToLower[text[i]]]

\* `sub in text`.
Contains(text, sub) ==
    \E i \in 1..(Len(text) - Len(sub) + 1) : SubSeq(text, i, i + Len(sub) - 1) = sub

\* The characters \w and \s match.
WordChars == Range(LowerLetters) \cup Range(UpperLetters) \cup Digits \cup {"_"}
is_word(c) == c \in WordChars
is_space(c) == c = " "

\* \b between positions i and i + 1 of text (0 and Len(text): its two ends).
boundary(text, i) ==
    (i >= 1 /\ is_word(text[i])) # (i < Len(text) /\ is_word(text[i + 1]))

\* re.search(r'\b\d+\s*days?\b', text, re.IGNORECASE): digits from i to j, then
\* spaces up to k, then "day" and maybe "s", then a word boundary.
DAY == <<"D", "A", "Y">>
DAYS == <<"D", "A", "Y", "S">>
has_day_count(text) ==
    \E i \in 1..Len(text) :
        /\ text[i] \in Digits
        /\ boundary(text, i - 1)
        /\ \E j \in i..Len(text) :
              /\ \A n \in i..j : text[n] \in Digits
              /\ \E k \in j..Len(text) :
                    /\ \A n \in (j + 1)..k : is_space(text[n])
                    /\ \/ /\ k + 3 <= Len(text)
                          /\ upper(SubSeq(text, k + 1, k + 3)) = DAY
                          /\ boundary(text, k + 3)
                       \/ /\ k + 4 <= Len(text)
                          /\ upper(SubSeq(text, k + 1, k + 4)) = DAYS
                          /\ boundary(text, k + 4)

\* str.split(): the maximal runs of characters that are not whitespace.
RECURSIVE split_from(_, _, _)
split_from(text, i, word) ==
    IF i > Len(text)
    THEN IF word = <<>> THEN <<>> ELSE <<word>>
    ELSE IF is_space(text[i])
        THEN (IF word = <<>> THEN <<>> ELSE <<word>>) \o split_from(text, i + 1, <<>>)
        ELSE split_from(text, i + 1, Append(word, text[i]))
split(text) == split_from(text, 1, <<>>)

\* ' '.join(words).
RECURSIVE join(_)
join(words) ==
    IF words = <<>> THEN <<>>
    ELSE IF Len(words) = 1 THEN words[1]
    ELSE words[1] \o <<" ">> \o join(Tail(words))

\* What a parser function returns when it raises.
PriceNotFoundError == "PriceNotFoundError"
IndexError == "IndexError"

RENEW == <<"R", "E", "N", "E", "W">>
SUBSCRIBED == <<"S", "U", "B", "S", "C", "R", "I", "B", "E", "D">>
FREE_FOR == <<"F", "R", "E", "E", " ", "F", "O", "R">>
FREE == <<"F", "R", "E", "E">>
FOR_FREE == <<"F", "O", "R", " ", "F", "R", "E", "E">>
PER_MONTH == <<"P", "E", "R", " ", "M", "O", "N", "T", "H">>

\* OnlyFansScraper.get_offer.
get_offer_trial_first(price_text) ==
    LET price_upper == upper(price_text)
    IN IF Contains(price_upper, FREE_FOR) THEN "FREE_TRIAL"
       ELSE IF Contains(price_upper, RENEW) \/ Contains(price_upper, SUBSCRIBED)
           THEN "SUBSCRIBED"
       ELSE IF has_day_count(price_upper) /\ ~Contains(price_upper, FREE) THEN "OFFER"
       ELSE IF Contains(price_upper, FOR_FREE) THEN "FREE"
       ELSE IF Contains(price_upper, PER_MONTH) THEN "NO_OFFER"
       ELSE PriceNotFoundError
get_offer(price_text) ==
    LET price_upper == upper(price_text)
    IN IF Contains(price_upper, RENEW) \/ Contains(price_upper, SUBSCRIBED)
       THEN "SUBSCRIBED"
       ELSE IF Contains(price_upper, FREE_FOR) THEN "FREE_TRIAL"
       ELSE IF has_day_count(price_upper) /\ ~Contains(price_upper, FREE) THEN "OFFER"
       ELSE IF Contains(price_upper, FOR_FREE) THEN "FREE"
       ELSE IF Contains(price_upper, PER_MONTH) THEN "NO_OFFER"
       ELSE PriceNotFoundError

\* Price.fromstring(price_string).amount, as str(): None (here "") when the
\* string holds no digit, else the number it holds.
amount(price_string) ==
    IF \A i \in 1..Len(price_string) : price_string[i] \notin Digits THEN ""
    ELSE CASE price_string = <<"$", "7", ".", "9", "9">> -> "7.99"
           [] price_string = <<"3", "0">> -> "30"
           [] price_string = <<"$", "0">> -> "0"

\* OnlyFansScraper.standardize_price.
standardize_price(price_string) ==
    IF amount(price_string) = "" THEN PriceNotFoundError ELSE amount(price_string)

\* parts[i] of Python, i from 0 or from -1 backwards, then standardize_price;
\* IndexError when parts has no such position.
price_at(parts, i) ==
    LET n == IF i >= 0 THEN i + 1 ELSE Len(parts) + i + 1
    IN IF n \in 1..Len(parts) THEN standardize_price(parts[n]) ELSE IndexError

\* OnlyFansScraper.get_price.
get_price_unguarded(price_text, offer) ==
    LET parts == split(price_text)
    IN IF offer \in {"FREE", "FREE_TRIAL", "SUBSCRIBED"} THEN standardize_price(<<"$", "0">>)
       ELSE IF offer = "NO_OFFER" THEN price_at(parts, 1)
       ELSE IF offer = "OFFER" THEN price_at(parts, -4)
       ELSE PriceNotFoundError
get_price(price_text, offer) ==
    LET parts == split(price_text)
    IN IF offer \in {"FREE", "FREE_TRIAL", "SUBSCRIBED"} THEN standardize_price(<<"$", "0">>)
       ELSE IF offer = "NO_OFFER"
           THEN IF Len(parts) < 2 THEN PriceNotFoundError ELSE price_at(parts, 1)
       ELSE IF offer = "OFFER"
           THEN IF Len(parts) < 4 THEN PriceNotFoundError ELSE price_at(parts, -4)
       ELSE PriceNotFoundError

\* OnlyFansScraper.get_subscription_status.
SUBSCRIBE == <<"S", "U", "B", "S", "C", "R", "I", "B", "E">>
SUBSCRIBEDFOR == <<"S", "U", "B", "S", "C", "R", "I", "B", "E", "D", "F", "O", "R">>
get_subscription_status(price_element_text) ==
    LET parts == split(price_element_text)
    IN IF Len(parts) = 0 THEN "INVALID"
       ELSE LET text_upper == upper(price_element_text)
                first_word == upper(parts[1])
            IN IF first_word = SUBSCRIBE THEN "NO_SUBSCRIPTION"
               ELSE IF \/ first_word = SUBSCRIBED
                       \/ first_word = RENEW
                       \/ Contains(text_upper, SUBSCRIBEDFOR)
                   THEN "SUBSCRIBED"
               ELSE "INVALID"

\* The words price labels are made of, and the labels: up to MaxTokens words
\* with one space between them (get_price_text normalizes the whitespace).
Words ==
    { <<"S", "u", "b", "s", "c", "r", "i", "b", "e">>,
      <<"S", "U", "B", "S", "C", "R", "I", "B", "E", "D">>,
      <<"r", "e", "n", "e", "w">>,
      <<"F", "r", "e", "e">>,
      <<"f", "o", "r">>,
      <<"$", "7", ".", "9", "9">>,
      <<"p", "e", "r">>,
      <<"m", "o", "n", "t", "h">>,
      <<"3", "0">>,
      <<"d", "a", "y", "s">>,
      <<"s", "u", "b", "s", "c", "r", "i", "b", "e", "d", "F", "o", "r">> }
Labels == {join(words) : words \in UNION {[1..n -> Words] : n \in 0..MaxTokens}}

\* scrape_info's three calls on a label: get_offer, then get_price unless
\* get_offer raised, and get_subscription_status.
ParseLabel(label) ==
    /\ LET offer == get_offer(label)
       IN parse' = [label |-> label,
                    offer |-> offer,
                    price |-> IF offer = PriceNotFoundError
                              THEN PriceNotFoundError
                              ELSE get_price(label, offer),
                    status |-> get_subscription_status(label)]
    /\ UNCHANGED <<db, clock, pc, seen_users, current_run_id, no_new_items_count,
                   loop_exit, run_seen, resampled, hist, calls, last, checks, item_failure, container, answer, imported,
                   tick>>

\* ------------------------------------------------------- the page sampler
\* What one div.b-users__item of the page offers when it is read:
\*   username    the stripped text of div.g-user-username, "@" removed; ""
\*               when it is missing or empty
\*   stale       reading the element again in scrape_info raises
\*               (StaleElementReferenceException)
\*   price_text  what get_price_text returns: the label of .b-wrap-btn-text,
\*               <<>> when there is none
\*   lists       what get_lists returns
Item(u, stale, price_text, lists) ==
    [username |-> u, stale |-> stale, price_text |-> price_text, lists |-> lists]

VisibleItems ==
    { Item("alice", FALSE, <<"S", "u", "b", "s", "c", "r", "i", "b", "e", " ", "$", "7", ".", "9", "9", " ", "p", "e", "r", " ", "m", "o", "n", "t", "h">>, <<"A">>),
      Item("alice", TRUE, <<"S", "u", "b", "s", "c", "r", "i", "b", "e", " ", "$", "7", ".", "9", "9", " ", "p", "e", "r", " ", "m", "o", "n", "t", "h">>, <<"A">>),
      Item("bob", FALSE, <<"S", "U", "B", "S", "C", "R", "I", "B", "E", "D">>, <<"A", "B">>),
      Item("bob", FALSE, <<>>, <<"B">>),
      Item("", FALSE, <<"S", "u", "b", "s", "c", "r", "i", "b", "e", " ", "$", "7", ".", "9", "9", " ", "p", "e", "r", " ", "m", "o", "n", "t", "h">>, <<>>) }

\* The samples find_elements(USER_ITEM_SELECTOR) can return: up to MaxVisible
\* elements of the page in any order, no element twice.
Samples ==
    {sample \in UNION {[1..n -> VisibleItems] : n \in 0..MaxVisible} :
        \A i, j \in 1..Len(sample) : sample[i] = sample[j] => i = j}

IsNone(x) == "none" \in DOMAIN x

\* OnlyFansScraper.unknown_user_info.
unknown_user_info(username) ==
    [username |-> username, price |-> "?", subscription_status |-> "?", lists |-> <<>>]

\* OnlyFansScraper.scrape_info: None, the 'unknown' record, or the record.
scrape_info_stale_unknown(user_element) ==
    IF user_element.username = "" THEN NoneValue
    ELSE unknown_user_info(user_element.username)
scrape_info(user_element) ==
    IF user_element.stale \/ user_element.username = "" THEN NoneValue
    ELSE IF user_element.price_text = <<>>
        THEN unknown_user_info(user_element.username)
    ELSE LET offer == get_offer(user_element.price_text)
             price == get_price(user_element.price_text, offer)
         IN IF offer = PriceNotFoundError \/ price \in {PriceNotFoundError, IndexError}
            THEN unknown_user_info(user_element.username)
            ELSE [username |-> user_element.username,
                  subscription_status |->
                      get_subscription_status(user_element.price_text),
                  price |-> price,
                  lists |-> user_element.lists]

\* The labels of the elements write_to_database is called on directly: none,
\* 'Free' (no offer is recognized), '30 days' (an offer of fewer than four
\* tokens), 'per month' (no numeric price) and 'Subscribe $7.99 per month'.
WrittenLabels ==
    { <<>>,
      <<"F", "r", "e", "e">>,
      <<"3", "0", " ", "d", "a", "y", "s">>,
      <<"p", "e", "r", " ", "m", "o", "n", "t", "h">>,
      <<"S", "u", "b", "s", "c", "r", "i", "b", "e", " ", "$", "7", ".", "9", "9", " ", "p", "e", "r", " ", "m", "o", "n", "t", "h">> }
WrittenItems ==
    {Item(u, FALSE, label, <<"A", "B">>) : u \in Usernames, label \in WrittenLabels}

\* scrape_info of each item (an item's record depends on the item alone).
scraped == [user_element \in VisibleItems \cup WrittenItems |-> scrape_info(user_element)]

\* OnlyFansScraper.get_new_user_elements: the visible items whose username
\* can be read and is not in seen_users.
get_new_user_elements_all(all_elements, seen) ==
    SelectSeq(all_elements, LAMBDA elem : elem.username # "")
get_new_user_elements(all_elements, seen) ==
    SelectSeq(all_elements, LAMBDA elem :
        elem.username # "" /\ elem.username \notin seen)

\* Python's float() on the strings of the model, in cents; on every other
\* string it raises ValueError.
FloatStrings == {"0", "0.0", "7.99", "9.99", "30", "-5", "-5.0"}
Float(text) ==
    CASE text \in {"0", "0.0"} -> 0
      [] text = "7.99" -> 799
      [] text = "30" -> 3000
      [] text = "9.99" -> 999
      [] text \in {"-5", "-5.0"} -> -500

\* write_to_database, first loop: scrape each element, keep the records whose
\* username is not yet in seen_users and add it there.
RECURSIVE collect_new_users_nocheck(_, _, _)
collect_new_users_nocheck(user_elements, seen, new_users) ==
    IF user_elements = <<>>
    THEN [new_users |-> new_users, seen_users |-> seen]
    ELSE LET user_info == scraped[Head(user_elements)]
         IN IF ~IsNone(user_info)
            THEN collect_new_users_nocheck(Tail(user_elements),
                     seen \cup {user_info.username}, Append(new_users, user_info))
            ELSE collect_new_users_nocheck(Tail(user_elements), seen, new_users)
RECURSIVE collect_new_users(_, _, _)
collect_new_users(user_elements, seen, new_users) ==
    IF user_elements = <<>>
    THEN [new_users |-> new_users, seen_users |-> seen]
    ELSE LET user_info == scraped[Head(user_elements)]
         IN IF ~IsNone(user_info) /\ user_info.username \notin seen
            THEN collect_new_users(Tail(user_elements),
                     seen \cup {user_info.username}, Append(new_users, user_info))
            ELSE collect_new_users(Tail(user_elements), seen, new_users)

\* write_to_database, second loop: one upsert_user per new record, each at
\* its own datetime.now(); an upsert that raises (fail_at[username] # 0) is
\* logged and the loop goes on. The clock counts the timestamps that reach the
\* store: the datetime.now() of a rolled-back upsert is recorded nowhere.
RECURSIVE batch_write_abort(_, _, _, _, _, _)
batch_write_abort(d, clk, run_id, new_users, fail_at, log) ==
    IF new_users = <<>>
    THEN [db |-> d, clock |-> clk, calls |-> log]
    ELSE LET user == Head(new_users)
             price_float == IF user.price # "?"
                            THEN IF user.price \in FloatStrings
                                 THEN Float(user.price) ELSE 0
                            ELSE 0
             f == fail_at[user.username]
             now == IF f = 0 THEN clk + 1 ELSE clk
         IN batch_write_abort(
                upsert_user(d, user.username, price_float, user.subscription_status,
                            user.lists, run_id, now, f),
                now, run_id, IF f = 0 THEN Tail(new_users) ELSE <<>>, fail_at,
                Append(log, [op |-> "upsert_user", run_id |-> run_id,
                             arg |-> user.username]))
RECURSIVE batch_write(_, _, _, _, _, _)
batch_write(d, clk, run_id, new_users, fail_at, log) ==
    IF new_users = <<>>
    THEN [db |-> d, clock |-> clk, calls |-> log]
    ELSE LET user == Head(new_users)
             price_float == IF user.price # "?"
                            THEN IF user.price \in FloatStrings
                                 THEN Float(user.price) ELSE 0
                            ELSE 0
             f == fail_at[user.username]
             now == IF f = 0 THEN clk + 1 ELSE clk
         IN batch_write(
                upsert_user(d, user.username, price_float, user.subscription_status,
                            user.lists, run_id, now, f),
                now, run_id, Tail(new_users), fail_at,
                Append(log, [op |-> "upsert_user", run_id |-> run_id,
                             arg |-> user.username]))

\* OnlyFansScraper.write_to_database.
write_to_database(d, clk, seen, run_id, user_elements, fail_at) ==
    LET c == collect_new_users(user_elements, seen, <<>>)
        w == batch_write(d, clk, run_id, c.new_users, fail_at, <<>>)
    IN [db |-> w.db, clock |-> w.clock, seen_users |-> c.seen_users, calls |-> w.calls]

\* ---------------------------------------------------------- the watchdog
Banners == {"absent", "hidden", "visible"}
RetryButtons == {"absent", "hidden", "disabled", "clickable", "not_interactable"}

\* OnlyFansScraper.check_for_page_errors: True when the error could not be
\* fixed; clicked tells whether retry_btn.click() was called.
check_for_page_errors_in_dom(banner, retry) ==
    IF banner \in {"visible", "hidden"}
    THEN IF retry = "absent" THEN [unrecoverable |-> TRUE, clicked |-> FALSE]
         ELSE IF retry \in {"clickable", "not_interactable"}
             THEN [unrecoverable |-> retry = "not_interactable", clicked |-> TRUE]
         ELSE [unrecoverable |-> TRUE, clicked |-> FALSE]
    ELSE [unrecoverable |-> FALSE, clicked |-> FALSE]
check_for_page_errors(banner, retry) ==
    IF banner = "visible"
    THEN IF retry = "absent" THEN [unrecoverable |-> TRUE, clicked |-> FALSE]
         ELSE IF retry \in {"clickable", "not_interactable"}
             THEN [unrecoverable |-> retry = "not_interactable", clicked |-> TRUE]
         ELSE [unrecoverable |-> TRUE, clicked |-> FALSE]
    ELSE [unrecoverable |-> FALSE, clicked |-> FALSE]

\* ------------------------------------------------------------ scrape_list
NoFailure == [skipped |-> {}, others |-> {}]
NoParse == [label |-> <<>>, offer |-> "", price |-> "", status |-> ""]
NoImport ==
    [file |-> [exists |-> FALSE, date |-> NULL, header_ok |-> FALSE, rows |-> <<>>],
     failing |-> {}, user_count |-> NULL, raised |-> "none"]
NoAnswer == [op |-> "none", arg |-> "", rows |-> <<>>]
NoCall == [op |-> "none", username |-> "", lists |-> <<>>, fail_at |-> 0]

Init ==
    /\ db = EmptyDb
    /\ clock = 0
    /\ pc = "idle"
    /\ seen_users = {}
    /\ current_run_id = NULL
    /\ no_new_items_count = 0
    /\ loop_exit = "none"
    /\ run_seen = {}
    /\ resampled = FALSE
    /\ hist = <<>>
    /\ calls = <<>>
    /\ last = NoCall
    /\ parse = NoParse
    /\ checks = <<>>
    /\ item_failure = NoFailure
    /\ container = "absent"
    /\ answer = NoAnswer
    /\ imported = NoImport
    /\ tick = FALSE

\* The page scrape_list navigates to: item elements appear on it, or none
\* ever does.
Containers == {"present", "absent"}

\* The failure point upsert_user is given for each username it is called for.
ScrapeFails == [Usernames -> {0, 2}]

\* scrape_list up to the while loop: navigate, wait_until_page_loads (a
\* TimeoutException, raised when no item element appears, is caught and
\* logged), start_scrape_run.
ScrapeListBegin(list_id, page) ==
    /\ pc \in {"idle", "returned"}
    /\ Len(db.scrape_runs) < MaxRuns
    /\ container' = page
    /\ db' = start_scrape_run(db, list_id, clock + 1, FALSE)
    /\ clock' = clock + 1
    /\ current_run_id' = lastrowid(db')
    /\ no_new_items_count' = 0
    /\ pc' = "loop"
    /\ loop_exit' = "none"
    /\ run_seen' = {}
    /\ resampled' = FALSE
    /\ hist' = <<>>
    /\ item_failure' = NoFailure
    /\ UNCHANGED <<seen_users, calls, last, parse, checks, answer, imported,
                   tick>>

\* The test of `while no_new_items_count < max_failures`.
loop_continues(count) == count < max_failures

\* One iteration in which check_for_page_errors returns True: the run is
\* closed with 'error' and the loop is left by break.
WatchdogError(banner, retry, raised) ==
    /\ pc = "loop"
    /\ loop_continues(no_new_items_count)
    /\ check_for_page_errors(banner, retry).unrecoverable
    /\ db' = complete_scrape_run(db, current_run_id, Cardinality(seen_users),
                                 "error", clock + 1, raised)
    /\ clock' = clock + 1
    /\ calls' = Append(calls, [op |-> "complete_scrape_run", run_id |-> current_run_id,
                               arg |-> "error"])
    /\ pc' = IF raised THEN "raised" ELSE "complete"
    /\ loop_exit' = IF raised THEN loop_exit ELSE "error"
    /\ UNCHANGED <<seen_users, current_run_id, no_new_items_count, run_seen,
                   resampled, hist, last, parse, checks, item_failure, container, answer, imported,
                   tick>>

\* A sample shows an identity this run has recorded already, or shows one
\* identity in two of its items.
Resamples(sample, recorded) ==
    \E i \in 1..Len(sample) :
        /\ sample[i].username # ""
        /\ \/ sample[i].username \in recorded
           \/ \E j \in 1..Len(sample) : j # i /\ sample[j].username = sample[i].username

\* The identities of a sample's items for which scrape_info gives a record.
Recorded(sample) ==
    {sample[i].username : i \in {j \in 1..Len(sample) : ~IsNone(scraped[sample[j]])}}

\* An item whose identity cannot be located (get_username raises
\* NoSuchElementException) or whose handling raises.
Fails(item) == item.username = "" \/ item.stale

\* The latest sample of the run that held items that fail: the identities
\* located in its failing items only and not seen before, and the unseen
\* identities shown by its other items.
ItemFailure(sample, seen, latest) ==
    LET failing == {sample[i].username : i \in {j \in 1..Len(sample) : Fails(sample[j])}}
        sound == {sample[i].username : i \in {j \in 1..Len(sample) : ~Fails(sample[j])}}
    IN IF failing = {} THEN latest
       ELSE [skipped |-> failing \ (sound \cup seen \cup {""}), others |-> sound \ seen]

\* One full iteration: the watchdog finds nothing unrecoverable, the page is
\* scrolled and sampled, the new elements are written, the counter is reset
\* or incremented.
Iterate(sample, fail_at) ==
    /\ pc = "loop"
    /\ loop_continues(no_new_items_count)
    /\ container = "absent" => sample = <<>>
    /\ {page \in Banners \X RetryButtons :
          ~check_for_page_errors(page[1], page[2]).unrecoverable} # {}
    /\ LET new_elements == get_new_user_elements(sample, seen_users)
           w == write_to_database(db, clock, seen_users, current_run_id,
                                  new_elements, fail_at)
       IN /\ {u \in Usernames : fail_at[u] # 0}
                 \subseteq {new_elements[i].username : i \in 1..Len(new_elements)}
          /\ hist' = LastN(Append(hist, new_elements # <<>>), 3)
          /\ resampled' = (resampled \/ Resamples(sample, run_seen))
          /\ run_seen' = run_seen \cup Recorded(sample)
          /\ IF new_elements # <<>>
             THEN /\ db' = w.db
                  /\ clock' = w.clock
                  /\ seen_users' = w.seen_users
                  /\ calls' = calls \o w.calls
                  /\ no_new_items_count' = 0
             ELSE /\ no_new_items_count' = no_new_items_count + 1
                  /\ UNCHANGED <<db, clock, seen_users, calls>>
    /\ item_failure' = ItemFailure(sample, seen_users, item_failure)
    /\ UNCHANGED <<pc, current_run_id, loop_exit, last, parse, checks, container, answer, imported>>

\* The while test fails: the loop is left as exhausted.
LoopExhausted ==
    /\ pc = "loop"
    /\ ~loop_continues(no_new_items_count)
    /\ pc' = "complete"
    /\ loop_exit' = "exhausted"
    /\ UNCHANGED <<db, clock, seen_users, current_run_id, no_new_items_count,
                   run_seen, resampled, hist, calls, last, parse, checks,
                   item_failure, container, answer, imported,
                   tick>>

\* An exception or an operator interrupt inside the loop body (a driver call
\* that raises, KeyboardInterrupt): scrape_list has no handler, it propagates.
LoopRaise ==
    /\ pc = "loop"
    /\ loop_continues(no_new_items_count)
    /\ pc' = "raised"
    /\ UNCHANGED <<db, clock, seen_users, current_run_id, no_new_items_count,
                   loop_exit, run_seen, resampled, hist, calls, last, parse, checks,
                   item_failure, container, answer, imported,
                   tick>>

\* After the loop: complete_scrape_run(..., 'completed') and return.
CompleteScrape(raised) ==
    /\ pc = "complete"
    /\ db' = complete_scrape_run(db, current_run_id, Cardinality(seen_users),
                                 "completed", clock + 1, raised)
    /\ clock' = clock + 1
    /\ calls' = Append(calls, [op |-> "complete_scrape_run", run_id |-> current_run_id,
                               arg |-> "completed"])
    /\ pc' = IF raised THEN "raised" ELSE "returned"
    /\ UNCHANGED <<seen_users, current_run_id, no_new_items_count, loop_exit,
                   run_seen, resampled, hist, last, parse, checks, item_failure, container, answer, imported,
                   tick>>

Next ==
    \/ \E list_id \in ListIds, page \in Containers : ScrapeListBegin(list_id, page)
    \/ \E banner \in Banners, retry \in RetryButtons, raised \in BOOLEAN :
          WatchdogError(banner, retry, raised)
    \/ \E sample \in Samples, fail_at \in ScrapeFails :
          Iterate(sample, fail_at) /\ UNCHANGED tick
    \/ LoopExhausted
    \/ LoopRaise
    \/ \E raised \in BOOLEAN : CompleteScrape(raised)

Spec == Init /\ [][Next]_vars

\* --------------------------------------------- scrape_list, run to its end
\* One scrape_list call in which nothing raises and no upsert fails: every
\* wait of an iteration ends (WebDriverWait with a timeout, time.sleep), so
\* an iteration that was begun is made to the end, and the iterations are
\* told apart by tick.
NoUpsertFails == [u \in Usernames |-> 0]
LiveNext ==
    \/ /\ pc = "idle"
       /\ \E list_id \in ListIds, page \in Containers : ScrapeListBegin(list_id, page)
    \/ \E banner \in Banners, retry \in RetryButtons :
          WatchdogError(banner, retry, FALSE)
    \/ \E sample \in Samples : Iterate(sample, NoUpsertFails) /\ tick' = ~tick
    \/ LoopExhausted
    \/ CompleteScrape(FALSE)

\* The call goes on as long as it has not returned.
LiveSpec == Init /\ [][LiveNext]_vars /\ WF_vars(LiveNext)

\* ------------------------------------------------------------ import_csv
\* str.strip() on the strings of the model.
Strip(text) ==
    CASE text = " alice " -> "alice"
      [] text = " A" -> "A"
      [] text = " " -> ""
      [] OTHER -> text

\* A CSV file as import_csv reads it:
\*   exists      csv_path.exists()
\*   date        the date in the file name (a timestamp), NULL when it has none
\*   header_ok   the four required columns are there
\*   rows        the data rows; the lists cell is given as its comma-separated
\*               pieces
CsvRow(username, price, status, lists) ==
    [username |-> username, price |-> price, subscription_status |-> status,
     lists |-> lists]

CsvFiles ==
    { [exists |-> TRUE, date |-> 0, header_ok |-> TRUE,
       rows |-> <<CsvRow(" alice ", "9.99", "NO_SUBSCRIPTION", <<"A", " A">>),
                  CsvRow("bob", "?", "", <<"">>)>>],
      [exists |-> TRUE, date |-> NULL, header_ok |-> TRUE,
       rows |-> <<CsvRow("bob", "-5", "SUBSCRIBED", <<"B", "C">>),
                  CsvRow(" ", "7.99", "NO_SUBSCRIPTION", <<"A">>)>>],
      [exists |-> TRUE, date |-> NULL, header_ok |-> FALSE, rows |-> <<>>] }

\* A path at which there is no file.
MissingFile == [exists |-> FALSE, date |-> 0, header_ok |-> FALSE, rows |-> <<>>]

\* import_csv, the lists cell: [l.strip() for l in lists_str.split(',') if
\* l.strip()].
parse_lists(pieces) ==
    SelectSeq([i \in 1..Len(pieces) |-> Strip(pieces[i])], LAMBDA l : l # "")

\* import_csv, the loop over the rows: a row with an empty username is
\* skipped, a row whose upsert raises (its index is in failing) is skipped,
\* every other row is upserted at scraped_at and counted.
RECURSIVE import_rows_count_raised(_, _, _, _, _, _, _)
import_rows_count_raised(d, rows, i, run_id, scraped_at, failing, user_count) ==
    IF i > Len(rows)
    THEN [db |-> d, user_count |-> user_count]
    ELSE LET row == rows[i]
             username == Strip(row.username)
             price_str == Strip(row.price)
             price == IF price_str # "" /\ price_str # "?"
                      THEN IF price_str \in FloatStrings THEN Float(price_str) ELSE 0
                      ELSE 0
             status == IF Strip(row.subscription_status) # ""
                       THEN Strip(row.subscription_status) ELSE "NO_SUBSCRIPTION"
             lists == parse_lists(row.lists)
         IN IF username = ""
            THEN import_rows_count_raised(d, rows, i + 1, run_id, scraped_at, failing, user_count)
            ELSE IF i \in failing
            THEN import_rows_count_raised(
                     upsert_user(d, username, price, status, lists, run_id,
                                 scraped_at, 2),
                     rows, i + 1, run_id, scraped_at, failing, user_count + 1)
            ELSE import_rows_count_raised(
                     upsert_user(d, username, price, status, lists, run_id,
                                 scraped_at, 0),
                     rows, i + 1, run_id, scraped_at, failing, user_count + 1)
RECURSIVE import_rows(_, _, _, _, _, _, _)
import_rows(d, rows, i, run_id, scraped_at, failing, user_count) ==
    IF i > Len(rows)
    THEN [db |-> d, user_count |-> user_count]
    ELSE LET row == rows[i]
             username == Strip(row.username)
             price_str == Strip(row.price)
             price == IF price_str # "" /\ price_str # "?"
                      THEN IF price_str \in FloatStrings THEN Float(price_str) ELSE 0
                      ELSE 0
             status == IF Strip(row.subscription_status) # ""
                       THEN Strip(row.subscription_status) ELSE "NO_SUBSCRIPTION"
             lists == parse_lists(row.lists)
         IN IF username = ""
            THEN import_rows(d, rows, i + 1, run_id, scraped_at, failing, user_count)
            ELSE IF i \in failing
            THEN import_rows(
                     upsert_user(d, username, price, status, lists, run_id,
                                 scraped_at, 2),
                     rows, i + 1, run_id, scraped_at, failing, user_count)
            ELSE import_rows(
                     upsert_user(d, username, price, status, lists, run_id,
                                 scraped_at, 0),
                     rows, i + 1, run_id, scraped_at, failing, user_count + 1)

\* Database.import_csv. For a path without a file it raises
\* FileNotFoundError before anything is written. Otherwise: one run started
\* at the file's date or at datetime.now(), the rows upserted, the run closed
\* 'completed' with the number of rows upserted and that number returned; when
\* the header is bad the run is closed 'failed' with 0 and ValueError raised.
import_csv(d, file, list_id, clk, failing) ==
    LET stamped == file.date # NULL
        scraped_at == IF stamped THEN file.date ELSE clk + 1
        clk1 == IF stamped THEN clk ELSE clk + 1
        d1 == start_scrape_run(d, list_id, scraped_at, FALSE)
        run_id == lastrowid(d1)
        r == import_rows(d1, file.rows, 1, run_id, scraped_at, failing, 0)
    IN IF ~file.exists
       THEN [db |-> d, clock |-> clk, user_count |-> NULL,
             raised |-> "FileNotFoundError"]
       ELSE IF file.header_ok
       THEN [db |-> complete_scrape_run(r.db, run_id, r.user_count, "completed",
                                        clk1 + 1, FALSE),
             clock |-> clk1 + 1, user_count |-> r.user_count, raised |-> ""]
       ELSE [db |-> complete_scrape_run(d1, run_id, 0, "failed", clk1 + 1, FALSE),
             clock |-> clk1 + 1, user_count |-> NULL, raised |-> "ValueError"]

\* ------------------------------------------------------------ the queries
\* The orders in which a SELECT ... ORDER BY key can return the rows S: every
\* enumeration of S along which key does not decrease (SQL leaves the order
\* of rows with equal keys open).
RECURSIVE Orders(_, _)
Orders(S, key) ==
    IF S = {} THEN {<<>>}
    ELSE UNION {{<<x>> \o rest : rest \in Orders(S \ {x}, key)} :
                   x \in {y \in S : \A z \in S : key[y] <= key[z]}}

\* The rowids of price_history that are of a username.
history_ids(d, username) ==
    {i \in 1..Len(d.price_history) : d.price_history[i].username = username}

Min(S) == CHOOSE x \in S : \A y \in S : x <= y

\* The latest-run-id query of the store (Database.get_latest_scrape_run_id,
\* called by DatabaseAnalyser and by the tests): the id of the run started
\* last, as one row; no row when no run was started.
get_latest_scrape_run_id(d) ==
    IF d.scrape_runs = <<>> THEN {<<>>}
    ELSE {<<[id |-> Len(d.scrape_runs)]>>}

\* Database.get_price_history: price, subscription_status and scraped_at of
\* the price_history rows of a username, ORDER BY scraped_at DESC. The
\* results the query can return.
history_row(d, i) ==
    [price |-> d.price_history[i].price,
     subscription_status |-> d.price_history[i].subscription_status,
     scraped_at |-> d.price_history[i].scraped_at]
get_price_history_oldest_first(d, username) ==
    LET ids == history_ids(d, username)
    IN {[k \in 1..Len(o) |-> history_row(d, o[k])] :
           o \in Orders(ids, [i \in ids |-> d.price_history[i].scraped_at])}
get_price_history(d, username) ==
    LET ids == history_ids(d, username)
    IN {[k \in 1..Len(o) |-> history_row(d, o[k])] :
           o \in Orders(ids, [i \in ids |-> 0 - d.price_history[i].scraped_at])}

\* Database.get_historical_low_prices: users JOIN price_history WHERE the
\* user's subscription_status is 'NO_SUBSCRIPTION', one group per username,
\* HAVING current_price = MIN(price) and COUNT(DISTINCT scrape_run_id) > 1,
\* ORDER BY current_price. The results the query can return.
low_price_row(d, u) ==
    LET ids == history_ids(d, u.username)
    IN [username |-> u.username,
        current_price |-> u.current_price,
        historical_low |-> Min({d.price_history[i].price : i \in ids}),
        scrape_count |-> Cardinality({d.price_history[i].scrape_run_id : i \in ids})]
get_historical_low_prices(d) ==
    LET joined == {u \in d.users :
                      /\ u.subscription_status = "NO_SUBSCRIPTION"
                      /\ history_ids(d, u.username) # {}}
        groups == {low_price_row(d, u) : u \in joined}
        having == {g \in groups :
                      g.current_price = g.historical_low /\ g.scrape_count > 1}
    IN Orders(having, [g \in having |-> g.current_price])

\* DatabaseAnalyser.find_trending_prices. price_trends: the price_history
\* rows with scraped_at >= since (datetime('now', '-60 days')), each with the
\* prices of the two rows before it in its username's partition, ordered by
\* scraped_at. The rows of a username the outer WHERE keeps: prev_price_2 is
\* not NULL, prev_price < prev_price_2 and price < prev_price.
trend_rows(d, username, since) ==
    LET ids == {i \in history_ids(d, username) : d.price_history[i].scraped_at >= since}
        partitions == Orders(ids, [i \in ids |-> d.price_history[i].scraped_at])
    IN UNION {{[username |-> username,
                prev_price_2 |-> d.price_history[o[k - 2]].price,
                prev_price |-> d.price_history[o[k - 1]].price,
                price |-> d.price_history[o[k]].price] :
                  k \in {n \in 3..Len(o) :
                            /\ d.price_history[o[n - 1]].price < d.price_history[o[n - 2]].price
                            /\ d.price_history[o[n]].price < d.price_history[o[n - 1]].price}} :
              o \in partitions}

\* GROUP BY username keeps one of the rows of each username (SQLite takes the
\* bare columns from an arbitrary row of the group), ORDER BY
\* (prev_price_2 - price) DESC, LIMIT 20. The results the query can return.
trend_limit == 20
find_trending_prices(d, since) ==
    LET names == {d.price_history[i].username : i \in 1..Len(d.price_history)}
        groups == {username \in names : trend_rows(d, username, since) # {}}
        picks == {pick \in [groups -> UNION {trend_rows(d, username, since) : username \in groups}] :
                     \A username \in groups : pick[username] \in trend_rows(d, username, since)}
    IN UNION {LET rows == {pick[username] : username \in groups}
              IN {SubSeq(o, 1, IF Len(o) < trend_limit THEN Len(o) ELSE trend_limit) :
                     o \in Orders(rows, [r \in rows |-> r.price - r.prev_price_2])} :
              pick \in picks}

\* Database.get_price_changes: over the price_history rows stamped since the
\* start of the window, LAG(price) OVER (PARTITION BY username ORDER BY
\* scraped_at) pairs each row with the one before it in its partition; the
\* pairs whose prices differ, as <<rowid before, rowid>>, for one order of
\* the partition.
changed_pairs(d, o) ==
    {<<o[k - 1], o[k]>> : k \in {n \in 2..Len(o) :
        d.price_history[o[n - 1]].price # d.price_history[o[n]].price}}
price_change_row(d, pair) ==
    [username |-> d.price_history[pair[2]].username,
     prev_price |-> d.price_history[pair[1]].price,
     price |-> d.price_history[pair[2]].price,
     scraped_at |-> d.price_history[pair[2]].scraped_at]

\* ORDER BY scraped_at DESC over the pairs of every partition. The results
\* the query can return.
get_price_changes(d, since) ==
    LET names == {d.price_history[i].username : i \in 1..Len(d.price_history)}
        window(username) ==
            {i \in history_ids(d, username) : d.price_history[i].scraped_at >= since}
        partitions(username) ==
            Orders(window(username),
                   [i \in window(username) |-> d.price_history[i].scraped_at])
        picks == {pick \in [names -> UNION {partitions(username) : username \in names}] :
                     \A username \in names : pick[username] \in partitions(username)}
    IN UNION {LET pairs == UNION {changed_pairs(d, pick[username]) : username \in names}
              IN {[k \in 1..Len(o) |-> price_change_row(d, o[k])] :
                     o \in Orders(pairs, [pair \in pairs |->
                                              0 - d.price_history[pair[2]].scraped_at])} :
              pick \in picks}

\* Database.get_stats: the number of users, of completed runs and of
\* price_history rows, and the started_at of the completed run started last
\* (None when no run is completed), as one row.
get_stats(d) ==
    LET completed == {i \in 1..Len(d.scrape_runs) : d.scrape_runs[i].status = "completed"}
    IN {<<[total_users |-> Cardinality(d.users),
           total_scrapes |-> Cardinality(completed),
           price_records |-> Len(d.price_history),
           last_scrape |-> IF completed = {} THEN NULL
                           ELSE 0 - Min({0 - d.scrape_runs[i].started_at : i \in completed})]>>}

\* str.split(',') on the list names of the model.
list_pieces(list_name) ==
    IF list_name = "A,B" THEN <<"A", "B">> ELSE <<list_name>>

RECURSIVE concat_pieces(_)
concat_pieces(list_names) ==
    IF list_names = <<>> THEN <<>>
    ELSE list_pieces(Head(list_names)) \o concat_pieces(Tail(list_names))

\* Database.get_users_with_lists: users LEFT JOIN user_lists (the open
\* memberships only when active_only), GROUP BY username, the list names of
\* a group joined by GROUP_CONCAT with ',' in some order and split at ','
\* again, [] when the group has none. The results the query can return.
listed_names(d, username, active_only) ==
    {d.user_lists[k].list_name : k \in {n \in 1..Len(d.user_lists) :
        /\ d.user_lists[n].username = username
        /\ active_only => d.user_lists[n].removed_at = NULL}}
users_with_lists_rows(d, active_only) ==
    {row \in UNION {{[username |-> u.username,
                      current_price |-> u.current_price,
                      subscription_status |-> u.subscription_status,
                      lists |-> concat_pieces(o)] :
                        o \in Orders(listed_names(d, u.username, active_only),
                                     [l \in listed_names(d, u.username, active_only) |-> 0])} :
                    u \in d.users} : TRUE}
get_users_with_lists(d, active_only) ==
    LET rows == users_with_lists_rows(d, active_only)
        picks == {pick \in SUBSET rows :
                     \A u \in d.users :
                         Cardinality({row \in pick : row.username = u.username}) = 1}
    IN UNION {Orders(pick, [row \in pick |-> 0]) : pick \in picks}

\* The flat format of a current-state view: one row per username with
\* username, str(price), subscription_status and the lists joined by ','
\* (the lists cell is given as its comma-separated pieces); the file's name
\* carries the given date or none.
Repr(price) ==
    CASE price = 0 -> "0.0"
      [] price = 799 -> "7.99"
      [] price = 999 -> "9.99"
      [] price = -500 -> "-5.0"
export_csv(view, date) ==
    [exists |-> TRUE, date |-> date, header_ok |-> TRUE,
     rows |-> [k \in 1..Len(view) |->
                  CsvRow(view[k].username, Repr(view[k].current_price),
                         view[k].subscription_status, view[k].lists)]]

\* ------------------------------------------------- the store, called directly
\* The observations upsert_user is called with: price, subscription_status
\* and lists.
Observations ==
    { <<799, "NO_SUBSCRIPTION", <<"A", "B">> >>,
      <<799, "NO_SUBSCRIPTION", <<"B", "C">> >>,
      <<999, "NO_SUBSCRIPTION", <<"A", "B">> >>,
      <<0, "SUBSCRIBED", <<"C", "C">> >> }

\* A caller starts a run.
StoreStartRun(list_id) ==
    /\ Len(db.scrape_runs) < MaxRuns
    /\ db' = start_scrape_run(db, list_id, clock + 1, FALSE)
    /\ clock' = clock + 1
    /\ last' = [op |-> "start_scrape_run", username |-> "", lists |-> <<>>, fail_at |-> 0]
    /\ UNCHANGED <<pc, seen_users, current_run_id, no_new_items_count, loop_exit,
                   run_seen, resampled, hist, calls, parse, checks, item_failure, container, answer,
                   tick>>
    /\ imported' = NoImport

\* A run id that is of no scrape_runs row. upsert_user takes any integer as
\* run_id, and neither it nor the connection checks it (the schema declares
\* the foreign keys, _connect sets no PRAGMA foreign_keys).
unknown_run_id(d) == lastrowid(d) + 1

\* A caller upserts one user, at datetime.now(); statement fail_at of the body
\* raises, or none does. A call that raised leaves in `last` only the
\* statement it raised at.
StoreUpsert(username, price, status, lists, run_id, fail_at) ==
    /\ Len(db.price_history) < MaxObs
    /\ db' = upsert_user(db, username, price, status, lists, run_id,
                         IF fail_at = 0 THEN clock + 1 ELSE clock, fail_at)
    /\ clock' = IF fail_at = 0 THEN clock + 1 ELSE clock
    /\ last' = IF fail_at = 0
               THEN [op |-> "upsert_user", username |-> username, lists |-> lists,
                     fail_at |-> 0]
               ELSE [last EXCEPT !.fail_at = fail_at]
    /\ UNCHANGED <<pc, seen_users, current_run_id, no_new_items_count, loop_exit,
                   run_seen, resampled, hist, calls, parse, checks, item_failure, container, answer,
                   tick>>
    /\ imported' = NoImport

\* A caller imports a CSV file; the upserts of the rows in failing raise.
StoreImportCsv(file, list_id, failing) ==
    /\ Len(db.scrape_runs) < MaxRuns
    /\ Len(db.price_history) < MaxObs
    /\ failing \subseteq 1..Len(file.rows)
    /\ LET r == import_csv(db, file, list_id, clock, failing)
       IN /\ db' = r.db
          /\ clock' = r.clock
          /\ last' = [op |-> "import_csv", username |-> "", lists |-> <<>>,
                      fail_at |-> 0]
          /\ imported' = [file |-> file, failing |-> failing,
                          user_count |-> r.user_count, raised |-> r.raised]
    /\ UNCHANGED <<pc, seen_users, current_run_id, no_new_items_count, loop_exit,
                   run_seen, resampled, hist, calls, parse, checks, item_failure,
                   container, answer,
                   tick>>

StoreNext ==
    \/ \E list_id \in ListIds : StoreStartRun(list_id)
    \/ \E username \in Usernames, o \in Observations, fail_at \in FailPoints :
          /\ db.scrape_runs # <<>>
          /\ StoreUpsert(username, o[1], o[2], o[3], lastrowid(db), fail_at)
    \/ \E username \in Usernames :
          /\ db.scrape_runs = <<>>
          /\ StoreUpsert(username, 799, "NO_SUBSCRIPTION", <<"A", "B">>,
                         unknown_run_id(db), 0)
    \/ \E file \in CsvFiles, failing \in SUBSET (1..2) :
          StoreImportCsv(file, "imported", failing)

StoreSpec == Init /\ [][StoreNext]_vars

\* ------------------------------------------------- the parser, called directly
\* The parser is applied once, to any of the labels.
ParseNext ==
    /\ parse = NoParse
    /\ \E label \in Labels : ParseLabel(label)

ParseSpec == Init /\ [][ParseNext]_vars

\* ----------------------------------------------- the watchdog, called directly
\* check_for_page_errors is called on a page with the given banner and retry
\* button.
WatchdogCheck(banner, retry) ==
    /\ Len(checks) < MaxChecks
    /\ checks' = Append(checks,
                    [banner |-> banner, retry |-> retry,
                     result |-> check_for_page_errors(banner, retry)])
    /\ UNCHANGED <<db, clock, pc, seen_users, current_run_id, no_new_items_count,
                   loop_exit, run_seen, resampled, hist, calls, last, parse,
                   item_failure, container, answer, imported,
                   tick>>

WatchNext == \E banner \in Banners, retry \in RetryButtons : WatchdogCheck(banner, retry)

WatchSpec == Init /\ [][WatchNext]_vars

\* ------------------------------------------ write_to_database, called directly
\* write_to_database is called on one element, for the latest run and with
\* upserts that do not raise; parse records what the parser makes of the
\* element's label.
WriteElement(user_element) ==
    /\ db.scrape_runs # <<>>
    /\ LET w == write_to_database(db, clock, seen_users, lastrowid(db),
                                  <<user_element>>, [u \in Usernames |-> 0])
           offer == get_offer(user_element.price_text)
       IN /\ db' = w.db
          /\ clock' = w.clock
          /\ seen_users' = w.seen_users
          /\ calls' = calls \o w.calls
          /\ parse' = [label |-> user_element.price_text,
                       offer |-> offer,
                       price |-> IF offer = PriceNotFoundError
                                 THEN PriceNotFoundError
                                 ELSE get_price(user_element.price_text, offer),
                       status |-> get_subscription_status(user_element.price_text)]
    /\ last' = [op |-> "write_to_database", username |-> user_element.username,
                lists |-> user_element.lists, fail_at |-> 0]
    /\ UNCHANGED <<pc, current_run_id, no_new_items_count, loop_exit, run_seen,
                   resampled, hist, checks, item_failure, container, answer,
                   imported,
                   tick>>

\* Runs are started and users upserted, then write_to_database is called
\* once.
WriteNext ==
    /\ last.op # "write_to_database"
    /\ \/ \E list_id \in ListIds : StoreStartRun(list_id)
       \/ \E username \in Usernames, o \in Observations :
              /\ db.scrape_runs # <<>>
              /\ StoreUpsert(username, o[1], o[2], o[3], lastrowid(db), 0)
       \/ \E user_element \in WrittenItems : WriteElement(user_element)

WriteSpec == Init /\ [][WriteNext]_vars

\* ------------------------------------------- memberships, followed over time
\* The lists a username is upserted with, call after call: none, A, A and B.
ListChoices == { <<>>, <<"A">>, <<"A", "B">> }

\* A caller upserts one user into the latest run, at datetime.now(); the
\* call runs to its end, or raises in the UPDATE loop of _update_user_lists
\* (fail_at = 4) and is rolled back.
MemberUpsert(username, lists, fail_at) ==
    /\ Len(db.price_history) < MaxUpserts
    /\ db.scrape_runs # <<>>
    /\ db' = upsert_user(db, username, 799, "NO_SUBSCRIPTION", lists, lastrowid(db),
                         IF fail_at = 0 THEN clock + 1 ELSE clock, fail_at)
    /\ clock' = IF fail_at = 0 THEN clock + 1 ELSE clock
    /\ last' = [op |-> "upsert_user", username |-> username, lists |-> lists,
                fail_at |-> fail_at]
    /\ UNCHANGED <<pc, seen_users, current_run_id, no_new_items_count, loop_exit,
                   run_seen, resampled, hist, calls, parse, checks, item_failure,
                   container, answer, imported, tick>>

ListNext ==
    \/ \E list_id \in ListIds : StoreStartRun(list_id)
    \/ \E username \in Usernames, lists \in ListChoices, fail_at \in {0, 4} :
          MemberUpsert(username, lists, fail_at)

ListSpec == Init /\ [][ListNext]_vars

\* ------------------------------------------------- the store, queried
\* The upserts made before the store is queried: username, price,
\* subscription_status, lists, and the scraped_at passed to upsert_user (NULL:
\* none, upsert_user takes datetime.now()).
HistoryUpserts ==
    { [username |-> "alice", price |-> 1000, status |-> "NO_SUBSCRIPTION",
       lists |-> <<"A">>, scraped_at |-> NULL],
      [username |-> "alice", price |-> 800, status |-> "NO_SUBSCRIPTION",
       lists |-> <<"A">>, scraped_at |-> NULL],
      [username |-> "alice", price |-> 1200, status |-> "NO_SUBSCRIPTION",
       lists |-> <<"A">>, scraped_at |-> NULL],
      [username |-> "alice", price |-> 800, status |-> "SUBSCRIBED",
       lists |-> <<"A">>, scraped_at |-> NULL],
      [username |-> "alice", price |-> 1200, status |-> "NO_SUBSCRIPTION",
       lists |-> <<"A">>, scraped_at |-> 0],
      [username |-> "bob", price |-> 800, status |-> "NO_SUBSCRIPTION",
       lists |-> <<"A", "B">>, scraped_at |-> NULL] }

\* A caller upserts one user into the latest run.
HistoryUpsert(o) ==
    /\ Len(db.price_history) < MaxHistory
    /\ db.scrape_runs # <<>>
    /\ LET now == IF o.scraped_at = NULL THEN clock + 1 ELSE clock
           scraped_at == IF o.scraped_at = NULL THEN now ELSE o.scraped_at
       IN /\ db' = upsert_user(db, o.username, o.price, o.status, o.lists,
                               lastrowid(db), scraped_at, 0)
          /\ clock' = now
    /\ last' = [op |-> "upsert_user", username |-> o.username, lists |-> o.lists,
                fail_at |-> 0]
    /\ UNCHANGED <<pc, seen_users, current_run_id, no_new_items_count, loop_exit,
                   run_seen, resampled, hist, calls, parse, checks, item_failure,
                   container, answer, imported,
                   tick>>

\* A query that writes: it deletes the price_history rows it read.
Query_consuming(op, arg, results) ==
    /\ \E rows \in results : answer' = [op |-> op, arg |-> arg, rows |-> rows]
    /\ db' = [db EXCEPT !.price_history = <<>>]
    /\ UNCHANGED <<clock, pc, seen_users, current_run_id, no_new_items_count,
                   loop_exit, run_seen, resampled, hist, calls, last, parse,
                   checks, item_failure, container, imported,
                   tick>>

\* A caller makes a query: it returns one of the results it can return, and
\* executes nothing but SELECT statements.
Query(op, arg, results) ==
    /\ \E rows \in results : answer' = [op |-> op, arg |-> arg, rows |-> rows]
    /\ UNCHANGED <<db, clock, pc, seen_users, current_run_id, no_new_items_count,
                   loop_exit, run_seen, resampled, hist, calls, last, parse,
                   checks, item_failure, container, imported,
                   tick>>

\* The names of the queries of the store.
QueryOps ==
    {"get_price_history", "get_price_changes", "get_historical_low_prices",
     "find_trending_prices", "get_stats", "get_users_with_lists",
     "get_latest_scrape_run_id"}

\* A query raises (sqlite3.Error from cursor.execute, no handler in the
\* query): the caller gets no rows, and nothing but a SELECT was executed.
QueryFails(op) ==
    /\ answer' = [op |-> "raised", arg |-> op, rows |-> <<>>]
    /\ UNCHANGED <<db, clock, pc, seen_users, current_run_id, no_new_items_count,
                   loop_exit, run_seen, resampled, hist, calls, last, parse,
                   checks, item_failure, container, imported,
                   tick>>

\* A caller closes the latest run.
QueryCompleteRun(status) ==
    /\ db.scrape_runs # <<>>
    /\ db.scrape_runs[lastrowid(db)].status = "running"
    /\ db' = complete_scrape_run(db, lastrowid(db),
                                 Cardinality({r \in db.users :
                                     r.last_scraped_run_id = lastrowid(db)}),
                                 status, clock + 1, FALSE)
    /\ clock' = clock + 1
    /\ last' = [op |-> "complete_scrape_run", username |-> "", lists |-> <<>>,
                fail_at |-> 0]
    /\ UNCHANGED <<pc, seen_users, current_run_id, no_new_items_count, loop_exit,
                   run_seen, resampled, hist, calls, parse, checks, item_failure,
                   container, answer, imported,
                   tick>>

\* Runs are started and users upserted, the latest run is closed or left
\* running, then the store is queried once.
QueryNext ==
    /\ answer = NoAnswer
    /\ \/ /\ last.op # "complete_scrape_run"
          /\ \/ \E list_id \in ListIds : StoreStartRun(list_id)
             \/ \E o \in HistoryUpserts : HistoryUpsert(o)
             \/ \E status \in {"completed", "failed"} : QueryCompleteRun(status)
       \/ \E since \in 0..(clock + 1) :
              Query("get_price_changes", "", get_price_changes(db, since))
       \/ Query("get_stats", "", get_stats(db))
       \/ \E active_only \in BOOLEAN :
              Query("get_users_with_lists", "", get_users_with_lists(db, active_only))
       \/ \E op \in QueryOps : QueryFails(op)
       \/ \E username \in Usernames :
              Query("get_price_history", username, get_price_history(db, username))
       \/ Query("get_latest_scrape_run_id", "", get_latest_scrape_run_id(db))
       \/ Query("get_historical_low_prices", "", get_historical_low_prices(db))
       \/ \E since \in 0..(clock + 1) :
              Query("find_trending_prices", "", find_trending_prices(db, since))

QuerySpec == Init /\ [][QueryNext]_vars

\* ------------------------------------------------- the store, imported into
\* The observations upsert_user is called with before an import: those of
\* Observations, and one with a list whose name holds a comma.
ImportObservations ==
    Observations \cup { <<799, "NO_SUBSCRIPTION", <<"A,B">> >> }

\* A caller exports the current-state view to a file and imports that file
\* under the list id 'reimported'.
StoreReimport(view, date) ==
    StoreImportCsv(export_csv(view, date), "reimported", {})

\* Runs are started, users upserted and CSV files imported, from paths with
\* and without a file; the current-state view is exported and imported.
ImportNext ==
    \/ \E list_id \in ListIds : StoreStartRun(list_id)
    \/ \E username \in Usernames, o \in ImportObservations :
          /\ db.scrape_runs # <<>>
          /\ StoreUpsert(username, o[1], o[2], o[3], lastrowid(db), 0)
    \/ \E file \in CsvFiles \cup {MissingFile}, failing \in SUBSET (1..2) :
          StoreImportCsv(file, "imported", failing)
    \/ \E view \in get_users_with_lists(db, TRUE) : StoreReimport(view, NULL)

ImportSpec == Init /\ [][ImportNext]_vars

\* ------------------------------------------------------ claims: the loop
\* The scrape_runs row of the run scrape_list has opened.
CurrentRun == db.scrape_runs[current_run_id]

\* The last n iterations of the run sampled no new identity.
ZeroYields(n) ==
    /\ Len(hist) >= n
    /\ \A i \in (Len(hist) - n + 1)..Len(hist) : ~hist[i]

\* The complete_scrape_run calls scrape_list has made for a run.
CompleteCalls(run_id) ==
    {i \in 1..Len(calls) :
        calls[i].op = "complete_scrape_run" /\ calls[i].run_id = run_id}

\* C1: the loop is left as exhausted exactly when the last 3 iterations each
\* sampled no new identity: at the while test the exit is taken if and only
\* if the three latest samples held no unseen identity (so two empty samples
\* followed by one with a new identity keep the run going), and a run that
\* was left as exhausted ended on three such iterations.
C1_ExhaustionThreshold ==
    /\ pc = "loop" => (ENABLED LoopExhausted <=> ZeroYields(3))
    /\ loop_exit = "exhausted" => ZeroYields(3)

\* C1, witness: a run that recorded identities and was then left as exhausted.
C1_Witness ==
    /\ loop_exit = "exhausted"
    /\ run_seen # {}
    /\ ZeroYields(3)

\* C2: once scrape_list has returned from a run in which the watchdog
\* reported an unrecoverable page error, the stored status of the run is
\* 'error'.
C2_ErrorStatusStored ==
    (pc = "returned" /\ loop_exit = "error") => CurrentRun.status = "error"

\* C3: when an exception or an interrupt leaves scrape_list after the run
\* was opened, the run has been closed with status 'failed'.
C3_ClosedOnException ==
    pc = "raised" => CurrentRun.status = "failed"

\* C4: a run is closed exactly once: complete_scrape_run is applied to a run
\* at most once, and a row whose status is terminal keeps its status,
\* user_count and completed_at in every later step.
C4_ClosedExactlyOnce ==
    /\ [](\A r \in 1..Len(db.scrape_runs) : Cardinality(CompleteCalls(r)) <= 1)
    /\ [][\A r \in 1..Len(db.scrape_runs) :
            db.scrape_runs[r].status \in {"completed", "error", "failed"}
                => db.scrape_runs'[r] = db.scrape_runs[r]]_vars

\* C5: when scrape_list has returned from a run left as exhausted, the run's
\* status is 'completed' and its user_count is the number of distinct
\* identities sampled during that run.
C5_CompletedCount ==
    (pc = "returned" /\ loop_exit = "exhausted") =>
        /\ CurrentRun.status = "completed"
        /\ CurrentRun.user_count = Cardinality(run_seen)

\* C6: scrape_list calls upsert_user at most once for a username and a run id.
C6_UpsertedAtMostOnce ==
    \A i, j \in 1..Len(calls) :
        (/\ i # j
         /\ calls[i].op = "upsert_user"
         /\ calls[j].op = "upsert_user"
         /\ calls[i].run_id = calls[j].run_id)
            => calls[i].arg # calls[j].arg

\* C6, witness: a run that has upserted a username and sampled an identity
\* again afterwards or twice in one sample.
C6_Witness ==
    /\ resampled
    /\ \E i \in 1..Len(calls) :
          calls[i].op = "upsert_user" /\ calls[i].run_id = current_run_id

\* ----------------------------------------------------- claims: the store
\* The ids of the user_lists rows of a username and a list that are open.
OpenRows(d, username, list_name) ==
    {i \in 1..Len(d.user_lists) :
        /\ d.user_lists[i].username = username
        /\ d.user_lists[i].list_name = list_name
        /\ d.user_lists[i].removed_at = NULL}

\* The id of the newest price_history row of a username (0: it has none).
NewestObservation(d, username) ==
    LET ids == {i \in 1..Len(d.price_history) : d.price_history[i].username = username}
    IN IF ids = {} THEN 0 ELSE CHOOSE i \in ids : \A j \in ids : j <= i

\* Every username with an Observation has its users row, written by the call
\* that inserted its newest Observation; and the open memberships of the
\* username upserted last are the lists of that call.
UpsertsWhole ==
    /\ \A u \in Usernames :
          LET n == NewestObservation(db, u)
          IN n # 0 =>
                \E r \in db.users :
                    /\ r.username = u
                    /\ r.current_price = db.price_history[n].price
                    /\ r.subscription_status = db.price_history[n].subscription_status
                    /\ r.last_seen = db.price_history[n].scraped_at
                    /\ r.last_scraped_run_id = db.price_history[n].scrape_run_id
    /\ last.op = "upsert_user" =>
          existing_lists(db, last.username) = Range(last.lists)

\* A step in which an upsert_user call of the caller has committed.
UpsertCommitted ==
    /\ last'.op = "upsert_user"
    /\ last'.fail_at = 0
    /\ db' # db

\* C7: upsert_user is atomic: a call in which a statement raises leaves the
\* store exactly as it was, so in every state each username's users row is
\* the one written with its newest Observation and the memberships of the
\* username upserted last are fully reconciled.
C7_UpsertAtomic ==
    /\ [][last'.fail_at # 0 => db' = db]_vars
    /\ []UpsertsWhole

\* C7, witness: a call has raised in the list reconciliation, after the users
\* write, the Observation insert and the INSERT loop, with memberships open.
C7_Witness ==
    /\ last.op = "upsert_user"
    /\ last.fail_at = 4
    /\ existing_lists(db, last.username) # {}

\* C8: the ledger is append-only: every step keeps the price_history rows it
\* found; an upsert_user call that commits adds exactly one row, for its
\* username; and when its price, state and lists are those the username has
\* already, the users row keeps its price, subscription-state and first-seen.
C8_AppendOnly ==
    [][/\ Len(db.price_history') >= Len(db.price_history)
       /\ SubSeq(db.price_history', 1, Len(db.price_history)) = db.price_history
       /\ UpsertCommitted =>
            LET u == last'.username
                row == db.price_history'[Len(db.price_history')]
            IN /\ Len(db.price_history') = Len(db.price_history) + 1
               /\ row.username = u
               /\ \A r \in db.users :
                     (/\ r.username = u
                      /\ r.current_price = row.price
                      /\ r.subscription_status = row.subscription_status
                      /\ existing_lists(db, u) = Range(last'.lists))
                     => \E r2 \in db.users' :
                           /\ r2.username = u
                           /\ r2.current_price = r.current_price
                           /\ r2.subscription_status = r.subscription_status
                           /\ r2.first_seen = r.first_seen
      ]_vars

\* C8, witness: a username's second upsert with the price, state and lists of
\* its first has committed: two Observations, no membership row opened or
\* closed by the second call.
C8_Witness ==
    LET n == Len(db.price_history)
    IN /\ last.op = "upsert_user"
       /\ last.fail_at = 0
       /\ n >= 2
       /\ db.price_history[n].username = last.username
       /\ db.price_history[n - 1].username = last.username
       /\ db.price_history[n].price = db.price_history[n - 1].price
       /\ db.price_history[n].subscription_status
             = db.price_history[n - 1].subscription_status
       /\ db.price_history[n].scraped_at # db.price_history[n - 1].scraped_at
       /\ \A i \in 1..Len(db.user_lists) :
             db.user_lists[i].username = last.username =>
                /\ db.user_lists[i].added_at # db.price_history[n].scraped_at
                /\ db.user_lists[i].removed_at # db.price_history[n].scraped_at

\* C9: an upsert_user call that commits, for a username with open memberships
\* E and lists N: every open row of a list in E \ N is closed, every list in
\* N \ E gets exactly one new row, open, and the rows of the lists in E \cap N
\* are as they were, with no new row.
C9_ListReconciliation ==
    [][UpsertCommitted =>
        LET u == last'.username
            E == existing_lists(db, u)
            N == Range(last'.lists)
            old == 1..Len(db.user_lists)
            new == (Len(db.user_lists) + 1)..Len(db.user_lists')
        IN /\ Len(db.user_lists') >= Len(db.user_lists)
           /\ \A l \in E \ N :
                 /\ OpenRows(db', u, l) = {}
                 /\ \A i \in OpenRows(db, u, l) :
                       /\ db.user_lists'[i].removed_at # NULL
                       /\ db.user_lists'[i] =
                             [db.user_lists[i] EXCEPT
                                 !.removed_at = db.user_lists'[i].removed_at]
           /\ \A l \in N \ E :
                 /\ Cardinality(OpenRows(db', u, l)) = 1
                 /\ OpenRows(db', u, l) \subseteq new
           /\ \A l \in E \cap N :
                 /\ OpenRows(db', u, l) = OpenRows(db, u, l)
                 /\ \A i \in OpenRows(db, u, l) : db.user_lists'[i] = db.user_lists[i]
           /\ \A i \in new :
                 /\ db.user_lists'[i].username = u
                 /\ db.user_lists'[i].list_name \in N \ E
      ]_vars

\* C9, witness: a username that was in A and B has been upserted with B and
\* C: its A row is closed, its B row is the old one, its C row is new.
C9_Witness ==
    /\ last.op = "upsert_user"
    /\ last.fail_at = 0
    /\ last.lists = <<"B", "C">>
    /\ \E a, b, c \in 1..Len(db.user_lists) :
          /\ db.user_lists[a].username = last.username
          /\ db.user_lists[b].username = last.username
          /\ db.user_lists[c].username = last.username
          /\ db.user_lists[a].list_name = "A"
          /\ db.user_lists[b].list_name = "B"
          /\ db.user_lists[c].list_name = "C"
          /\ db.user_lists[a].removed_at # NULL
          /\ db.user_lists[b].removed_at = NULL
          /\ db.user_lists[c].removed_at = NULL
          /\ db.user_lists[b].added_at = db.user_lists[a].added_at
          /\ db.user_lists[c].added_at = db.user_lists[a].removed_at

\* C10: in every state the upsert_user and import_csv calls reach, a username
\* and a list have at most one user_lists row with removed_at NULL.
C10_OneOpenMembership ==
    \A u \in Usernames, l \in ListNames : Cardinality(OpenRows(db, u, l)) <= 1

\* C10, witness: calls whose lists repeat a name have committed, one of
\* upsert_user and one of import_csv, and each name has its open row.
C10_Witness ==
    /\ last.op = "upsert_user"
    /\ last.fail_at = 0
    /\ last.lists = <<"C", "C">>
    /\ OpenRows(db, last.username, "C") # {}
    /\ \E u \in Usernames \ {last.username} : OpenRows(db, u, "A") # {}

Mentions(label, phrase) ==
    \E i \in 1..(Len(label) - Len(phrase) + 1) :
        \A k \in 1..Len(phrase) : ToLower[label[i + k - 1]] = ToLower[phrase[k]]

\* The offer kind the priority order gives a label.
OfferByPriority(label) ==
    CASE Mentions(label, RENEW) \/ Mentions(label, SUBSCRIBED) -> "SUBSCRIBED"
      [] OTHER ->
         CASE Mentions(label, FREE_FOR) -> "FREE_TRIAL"
           [] OTHER ->
              CASE has_day_count(lower(label)) /\ ~Mentions(label, FREE) -> "OFFER"
                [] OTHER ->
                   CASE Mentions(label, FOR_FREE) -> "FREE"
                     [] OTHER ->
                        CASE Mentions(label, PER_MONTH) -> "NO_OFFER"
                          [] OTHER -> PriceNotFoundError

\* C12: get_offer classifies a label by the first rule that matches, in the
\* order SUBSCRIBED (renew / subscribed), FREE_TRIAL (free for), OFFER (a day
\* count and no free), FREE (for free), NO_OFFER (per month), whatever the
\* case of the label's letters, and raises PriceNotFoundError when none does.
C12_OfferPriority ==
    parse # NoParse =>
        /\ parse.offer = OfferByPriority(parse.label)
        /\ get_offer(upper(parse.label)) = parse.offer
        /\ get_offer(lower(parse.label)) = parse.offer

\* C12, witness: a label in mixed case that matches the SUBSCRIBED rule and
\* the FREE_TRIAL rule has been classified SUBSCRIBED.
C12_Witness ==
    /\ parse.offer = "SUBSCRIBED"
    /\ Mentions(parse.label, FREE_FOR)
    /\ parse.label # upper(parse.label)
    /\ parse.label # lower(parse.label)

\* The prices the store holds are not negative.
StoredPricesNonNegative ==
    /\ \A i \in 1..Len(db.price_history) : db.price_history[i].price >= 0
    /\ \A r \in db.users : r.current_price >= 0

\* A label classified FREE, FREE_TRIAL or SUBSCRIBED has price zero.
FreeKindsPriceZero ==
    parse.offer \in {"FREE", "FREE_TRIAL", "SUBSCRIBED"} =>
        /\ parse.price \in FloatStrings
        /\ Float(parse.price) = 0

\* C13: every price written to the store, by the scrape loop or by
\* import_csv, is non-negative, and a label classified FREE, FREE_TRIAL or
\* SUBSCRIBED gets price zero.
C13_PricesNonNegative ==
    /\ StoredPricesNonNegative
    /\ FreeKindsPriceZero

\* The offer kinds get_price is called with, and one that is none of them.
OfferKinds == {"SUBSCRIBED", "FREE_TRIAL", "OFFER", "FREE", "NO_OFFER", "OTHER"}

\* C14: for every label, get_price gives for NO_OFFER the price of the second
\* token and for OFFER the price of the fourth token from the end; when the
\* label has fewer tokens than that it raises PriceNotFoundError, and for no
\* label and offer kind does it raise IndexError.
C14_PricePosition ==
    parse # NoParse =>
        LET tokens == split(parse.label)
            n == Len(tokens)
        IN /\ get_price(parse.label, "NO_OFFER") =
                 (IF n >= 2 THEN standardize_price(tokens[2]) ELSE PriceNotFoundError)
           /\ get_price(parse.label, "OFFER") =
                 (IF n >= 4 THEN standardize_price(tokens[n - 3])
                  ELSE PriceNotFoundError)
           /\ \A offer \in OfferKinds : get_price(parse.label, offer) # IndexError
           /\ parse.price # IndexError

\* C14, witness: a label classified OFFER with fewer than 4 tokens, for which
\* get_price has raised PriceNotFoundError.
C14_Witness ==
    /\ parse.offer = "OFFER"
    /\ Len(split(parse.label)) < 4
    /\ parse.price = PriceNotFoundError

\* The subscription state the first token of a label stands for.
StatusByFirstToken(label) ==
    LET tokens == split(label)
        first == IF tokens = <<>> THEN <<>> ELSE lower(tokens[1])
    IN IF first = lower(SUBSCRIBE) THEN "NO_SUBSCRIPTION"
       ELSE IF \/ first \in {lower(SUBSCRIBED), lower(RENEW)}
               \/ /\ Len(first) > Len(SUBSCRIBEDFOR)
                  /\ SubSeq(first, 1, Len(SUBSCRIBEDFOR)) = lower(SUBSCRIBEDFOR)
               \/ first = lower(SUBSCRIBEDFOR)
           THEN "SUBSCRIBED"
       ELSE "INVALID"

\* C15: get_subscription_status raises for no label and its result is decided
\* by the first token, whatever the case: 'subscribe' gives NO_SUBSCRIPTION;
\* 'subscribed', 'renew' or a token beginning 'subscribedfor' gives
\* SUBSCRIBED; every other label, the empty one too, gives INVALID.
C15_StatusByFirstToken ==
    parse.status # "" => parse.status = StatusByFirstToken(parse.label)

\* --------------------------------------------------- claims: the watchdog
\* What check_for_page_errors reports for the pages of the claim: no error and
\* no click when the banner is absent or hidden; unrecoverable and no click
\* when it is visible and the retry button is absent, hidden or disabled; the
\* button is clicked only when the banner is visible and the button is
\* displayed and enabled.
WatchdogListedCases(c) ==
    /\ c.banner \in {"absent", "hidden"} =>
          ~c.result.unrecoverable /\ ~c.result.clicked
    /\ (c.banner = "visible" /\ c.retry \in {"absent", "hidden", "disabled"}) =>
          c.result.unrecoverable /\ ~c.result.clicked
    /\ c.result.clicked =>
          c.banner = "visible" /\ c.retry \in {"clickable", "not_interactable"}

\* C16, as stated: besides the listed cases, whenever the banner is visible and
\* the retry button exists, is displayed and is enabled, the button is clicked
\* and the error is reported as recovered.
C16_AsStated ==
    \A i \in 1..Len(checks) :
        /\ WatchdogListedCases(checks[i])
        /\ (/\ checks[i].banner = "visible"
            /\ checks[i].retry \in {"clickable", "not_interactable"}) =>
              checks[i].result.clicked /\ ~checks[i].result.unrecoverable

\* C16, amended: besides the listed cases, when the banner is visible and the
\* retry button exists, is displayed and is enabled, the button is clicked;
\* the error is reported as recovered when the click returns, and as
\* unrecoverable when the click raises ElementNotInteractableException.
C16_WatchdogOutcome ==
    \A i \in 1..Len(checks) :
        /\ WatchdogListedCases(checks[i])
        /\ (checks[i].banner = "visible" /\ checks[i].retry = "clickable") =>
              checks[i].result.clicked /\ ~checks[i].result.unrecoverable
        /\ (checks[i].banner = "visible" /\ checks[i].retry = "not_interactable") =>
              checks[i].result.clicked /\ checks[i].result.unrecoverable

\* C16, witness: the watchdog has been called on a page with a hidden banner
\* and on one with a visible banner and a retry button whose click raises.
C16_Witness ==
    /\ \E i \in 1..Len(checks) : checks[i].banner = "hidden"
    /\ \E i \in 1..Len(checks) :
          /\ checks[i].banner = "visible"
          /\ checks[i].retry = "not_interactable"
          /\ checks[i].result.clicked

\* C17: a per-item failure never aborts the run. The iteration whose sample
\* holds an item whose identity cannot be located or whose handling raises
\* leaves the run in its loop with the ScrapeRun still 'running' and the
\* identities located only in failing items outside the seen-set; the unseen
\* identities of the sample's other items are in the seen-set and have been
\* handed to the store in this run; and a run that then leaves the loop as
\* exhausted is closed 'completed'.
ItemFailureTolerated ==
    item_failure # NoFailure =>
        /\ item_failure.others \subseteq seen_users
        /\ \A u \in item_failure.others :
               \E i \in 1..Len(calls) :
                   /\ calls[i].op = "upsert_user"
                   /\ calls[i].run_id = current_run_id
                   /\ calls[i].arg = u
        /\ pc = "loop" => db.scrape_runs[current_run_id].status = "running"
        /\ pc = "returned" /\ loop_exit = "exhausted" =>
               db.scrape_runs[current_run_id].status = "completed"
C18_UnknownRecordStored ==
    /\ \A user_element \in VisibleItems :
           (~Fails(user_element) /\ user_element.price_text = <<>>) =>
               /\ ~IsNone(scraped[user_element])
               /\ scraped[user_element].username = user_element.username
               /\ scraped[user_element].price = "?"
               /\ scraped[user_element].subscription_status = "?"
    /\ \A i \in 1..Len(db.price_history) :
           db.price_history[i].subscription_status = "?" =>
               db.price_history[i].price = NULL
    /\ \A r \in db.users :
           r.subscription_status = "?" => r.current_price = NULL

\* C19: a terminal infrastructure failure escalates the run. When no item
\* element ever appears on the page (wait_until_page_loads times out and
\* every sample is empty) and the watchdog stops nothing, scrape_list returns
\* with the ScrapeRun closed 'error' or 'failed', not 'completed'.
C19_ContainerAbsentEscalates ==
    (pc = "returned" /\ container = "absent" /\ loop_exit = "exhausted") =>
        db.scrape_runs[current_run_id].status \in {"error", "failed"}

\* The usernames upsert_user was called for and raised: the call is in the
\* log and the store holds no Observation of the username (one instance
\* upserts a username at most once).
FailedUpserts(log, d) ==
    {log[i].arg : i \in {j \in 1..Len(log) :
        /\ log[j].op = "upsert_user"
        /\ \A k \in 1..Len(d.price_history) : d.price_history[k].username # log[j].arg}}

\* C20: a store write failure for one username rolls back that upsert only.
\* The store holds no row of a username whose upsert raised; every other
\* identity added to the seen-set has been handed to the store and its rows
\* are there; the iteration in which an upsert raises (it logs more
\* upsert_user calls than it adds Observations) leaves the run in its loop
\* with the ScrapeRun untouched; and the run that leaves the loop as
\* exhausted is closed 'completed'.
WriteFailureTolerated ==
    /\ \A u \in FailedUpserts(calls, db) :
           /\ existing_user(db, u) = {}
           /\ \A k \in 1..Len(db.user_lists) : db.user_lists[k].username # u
    /\ \A u \in seen_users :
           /\ \E i \in 1..Len(calls) :
                  calls[i].op = "upsert_user" /\ calls[i].arg = u
           /\ u \notin FailedUpserts(calls, db) => existing_user(db, u) # {}
    /\ (pc = "returned" /\ loop_exit = "exhausted") =>
           db.scrape_runs[current_run_id].status = "completed"
C20_WriteFailureTolerated ==
    /\ []WriteFailureTolerated
    /\ [][(/\ Len(calls') > Len(calls)
            /\ calls'[Len(calls')].op = "upsert_user"
            /\ Len(calls') - Len(calls)
                   > Len(db'.price_history) - Len(db.price_history)) =>
              /\ FailedUpserts(calls', db') # FailedUpserts(calls, db)
              /\ pc' = "loop"
              /\ db'.scrape_runs = db.scrape_runs
              /\ no_new_items_count' = 0]_vars

\* The first sample of the first run showed alice and bob as new: alice's
\* upsert raised and left no row, bob's was committed after it.
C20_Witness ==
    /\ pc = "loop" /\ current_run_id = 1 /\ hist = <<TRUE>>
    /\ calls = <<[op |-> "upsert_user", run_id |-> 1, arg |-> "alice"],
                 [op |-> "upsert_user", run_id |-> 1, arg |-> "bob"]>>
    /\ FailedUpserts(calls, db) = {"alice"}
    /\ existing_user(db, "bob") # {}
    /\ seen_users = {"alice", "bob"}

\* ------------------------------------------------------ claims: the queries
\* The usernames of the rows a query returned.
Reported == {answer.rows[i].username : i \in 1..Len(answer.rows)}

\* The prices of a username's Observations.
ObservedPrices(username) ==
    {db.price_history[i].price : i \in history_ids(db, username)}

\* C21: get_historical_low_prices reports a username exactly when its current
\* subscription-state is not-subscribed, its current price equals the minimum
\* price over all its Observations, and it has at least 2 Observations.
C21_HistoricalLowReported ==
    answer.op = "get_historical_low_prices" =>
        \A username \in Usernames :
            username \in Reported <=>
                \E u \in existing_user(db, username) :
                    /\ u.subscription_status = "NO_SUBSCRIPTION"
                    /\ Cardinality(history_ids(db, username)) >= 2
                    /\ u.current_price = Min(ObservedPrices(username))

\* C22: the historical-low query and the price-trend query report only
\* usernames whose current subscription-state is not-subscribed.
C22_ReportsNotSubscribedOnly ==
    answer.op \in {"get_historical_low_prices", "find_trending_prices"} =>
        \A username \in Reported :
            \A u \in existing_user(db, username) :
                u.subscription_status = "NO_SUBSCRIPTION"

\* The rows get_price_history returned are the Observations of the username
\* asked for, each as often as it is in price_history, and no other row, in
\* the order of scraped_at, the latest first.
HistoryReturned ==
    LET ids == history_ids(db, answer.arg)
    IN /\ Len(answer.rows) = Cardinality(ids)
       /\ \A i \in ids :
              Cardinality({k \in 1..Len(answer.rows) : answer.rows[k] = history_row(db, i)})
                  = Cardinality({j \in ids : history_row(db, j) = history_row(db, i)})
       /\ \A k \in 1..(Len(answer.rows) - 1) :
              answer.rows[k].scraped_at >= answer.rows[k + 1].scraped_at

\* The Observation of the username asked for that was upserted last.
LastUpsertedId ==
    CHOOSE i \in history_ids(db, answer.arg) :
        \A j \in history_ids(db, answer.arg) : j <= i
LastUpserted == db.price_history[LastUpsertedId]

\* Every Observation of the username asked for is stamped later than the
\* Observations of the username upserted before it.
StampedInOrder ==
    \A i, j \in history_ids(db, answer.arg) :
        i < j => db.price_history[i].scraped_at < db.price_history[j].scraped_at

\* The Observations of the username asked for were upserted in successive
\* runs, one in each.
InSuccessiveRuns ==
    \A i, j \in history_ids(db, answer.arg) :
        i < j => db.price_history[i].scrape_run_id < db.price_history[j].scrape_run_id

\* C23, as stated: get_price_history returns every Observation of the
\* username and no other, newest-first, and after upserts made in successive
\* runs the first entry is the most recently upserted price.
C23_AsStated ==
    (answer.op = "get_price_history" /\ history_ids(db, answer.arg) # {}) =>
        /\ HistoryReturned
        /\ InSuccessiveRuns => answer.rows[1].price = LastUpserted.price

\* C23: get_price_history returns every Observation of the username and no
\* other, ordered by scraped_at with the latest first; when each Observation
\* of the username is stamped later than the ones upserted before it, the
\* first entry is the most recently upserted price.
C23_NewestFirst ==
    answer.op = "get_price_history" =>
        /\ HistoryReturned
        /\ (history_ids(db, answer.arg) # {} /\ StampedInOrder) =>
               answer.rows[1] = history_row(db, LastUpsertedId)

\* alice was upserted at 10.00 in one run and at 8.00 in the next, bob once;
\* the history of alice is asked for and starts with 8.00.
C23_Witness ==
    /\ answer.op = "get_price_history" /\ answer.arg = "alice"
    /\ history_ids(db, "bob") # {}
    /\ StampedInOrder /\ InSuccessiveRuns
    /\ [k \in 1..Len(answer.rows) |-> answer.rows[k].price] = <<800, 1000>>

\* ------------------------------------------------------ claims: import_csv
\* What an import_csv call that created one run did: the run it created is
\* the only new one, it is stamped with the date of the file name when there
\* is one and with the wall-clock time otherwise, and it is closed: either
\* 'completed' with user_count the number of rows upserted, which is the
\* number of Observations added and the number returned, or 'failed' with the
\* exception raised; rows whose upsert raised did not fail the import.
OneRunImported ==
    /\ Len(db'.scrape_runs) = Len(db.scrape_runs) + 1
    /\ SubSeq(db'.scrape_runs, 1, Len(db.scrape_runs)) = db.scrape_runs
    /\ LET run == db'.scrape_runs[Len(db'.scrape_runs)]
       IN /\ run.started_at = IF imported'.file.date # NULL
                              THEN imported'.file.date ELSE clock + 1
          /\ \/ /\ imported'.raised = ""
                /\ run.status = "completed"
                /\ run.user_count = imported'.user_count
                /\ run.user_count = Len(db'.price_history) - Len(db.price_history)
             \/ /\ imported'.raised # ""
                /\ run.status = "failed"
          /\ imported'.file.header_ok => imported'.raised = ""

CurrentState(d, username) ==
    {[price |-> u.current_price, subscription_status |-> u.subscription_status,
      lists |-> listed_names(d, username, TRUE)] : u \in existing_user(d, username)}

\* The step imported the export of the store's current-state view.
Reimported ==
    /\ imported' # NoImport
    /\ Len(db'.scrape_runs) = Len(db.scrape_runs) + 1
    /\ db'.scrape_runs[Len(db'.scrape_runs)].list_id = "reimported"

\* C25: round trip. Exporting the current-state view to the flat format and
\* importing it with import_csv under a distinct list id leaves every
\* username with the same price, subscription_status and set of open lists.
C25_RoundTrip ==
    [][Reimported =>
          \A username \in Usernames :
              CurrentState(db', username) = CurrentState(db, username)]_vars

C29_CounterFollowsSeenSet ==
    [][(/\ pc = "loop" /\ pc' = "loop"
        /\ \/ hist' # hist
           \/ no_new_items_count' # no_new_items_count
           \/ seen_users' # seen_users) =>
           IF seen_users' = seen_users
           THEN no_new_items_count' = no_new_items_count + 1
           ELSE no_new_items_count' = 0]_vars

\* ------------------------------------------------ claims: unparseable labels
\* The price label of the element write_to_database was called on is present
\* and cannot be parsed: no offer is recognized, or the offer has too few
\* tokens or no numeric price.
Unparseable(p) ==
    /\ p.label # <<>>
    /\ \/ p.offer = PriceNotFoundError
       \/ p.price \in {PriceNotFoundError, IndexError}

\* The user_lists rows of a username.
memberships(d, username) ==
    SelectSeq(d.user_lists, LAMBDA m : m.username = username)

\* C30: an item whose price label is present but cannot be parsed is
\* skipped: no price_history row is written for it, and the users row and
\* the user_lists rows of its username are left as they were.
C30_UnparseableSkipped ==
    [][(/\ last'.op = "write_to_database" /\ last.op # "write_to_database"
        /\ Unparseable(parse')) =>
           /\ db'.price_history = db.price_history
           /\ existing_user(db', last'.username) = existing_user(db, last'.username)
           /\ memberships(db', last'.username) = memberships(db, last'.username)]_vars

\* ------------------------------------------------ claims: termination
\* C28: scrape_list terminates: whatever the page shows of its finitely many
\* identities, and whether or not the error banner is visible with a retry
\* button that works, the loop that was entered is left and the run is
\* closed.
C28_ScrapeListTerminates ==
    [](pc = "loop" =>
           <>(/\ pc = "returned"
              /\ db.scrape_runs[current_run_id].status # "running"))

\* ------------------------------------------------ claims: memberships over time
\* The rowids of user_lists that are of a username and a list.
pair_rows(d, username, list_name) ==
    {i \in 1..Len(d.user_lists) :
        d.user_lists[i].username = username /\ d.user_lists[i].list_name = list_name}

\* C31: a closed user_lists row is final: no step changes a row whose
\* removed_at is set; an upsert_user call that commits with a list the
\* username had no open row for opens a fresh row for it; and the rows of
\* one (username, list) pair are closed rows followed by at most one open
\* row.
C31_ClosedRowsFinal ==
    /\ [][/\ \A i \in 1..Len(db.user_lists) :
                db.user_lists[i].removed_at # NULL =>
                    /\ i <= Len(db'.user_lists)
                    /\ db'.user_lists[i] = db.user_lists[i]
          /\ Len(db'.price_history) > Len(db.price_history) =>
                \A l \in Range(last'.lists) \ existing_lists(db, last'.username) :
                    \E i \in pair_rows(db', last'.username, l) :
                        /\ i > Len(db.user_lists)
                        /\ db'.user_lists[i].removed_at = NULL
                        /\ \A j \in pair_rows(db', last'.username, l) : j <= i]_vars
    /\ [](\A i, j \in 1..Len(db.user_lists) :
              (/\ i < j
               /\ db.user_lists[i].username = db.user_lists[j].username
               /\ db.user_lists[i].list_name = db.user_lists[j].list_name) =>
                  db.user_lists[i].removed_at # NULL)

\* A username joined A, left it and rejoined it: its A rows are a closed row
\* and, after it, an open one.
C31_Witness ==
    \E username \in Usernames :
        \E i, j \in pair_rows(db, username, "A") :
            /\ i < j
            /\ db.user_lists[i].removed_at # NULL
            /\ db.user_lists[j].removed_at = NULL
            /\ db.user_lists[j].added_at > db.user_lists[i].removed_at

\* ------------------------------------------------ claims: the current state
\* The Observations of a username that no other of its Observations is
\* stamped later than (what get_price_history can return first).
newest_ids(d, username) ==
    {i \in history_ids(d, username) :
        \A j \in history_ids(d, username) :
            d.price_history[j].scraped_at <= d.price_history[i].scraped_at}

\* C32: after any sequence of upsert_user and import_csv calls, the users
\* row of a username carries the price and subscription-state of its newest
\* Observation by timestamp, and its first_seen is not later than its
\* last_seen.
C32_CurrentIsNewest ==
    \A u \in db.users :
        /\ \E i \in newest_ids(db, u.username) :
               /\ u.current_price = db.price_history[i].price
               /\ u.subscription_status = db.price_history[i].subscription_status
        /\ u.first_seen <= u.last_seen

\* ------------------------------------------------ claims: the lists of a record
\* C33: for every record write_to_database upserts, the 'unknown' record of
\* an absent or unparseable price label included, the lists that reach the
\* store are the lists get_lists extracted from the item: after the call the
\* open memberships of the username are those lists, and no membership of a
\* list the item shows is closed.
C33_ExtractedListsReachStore ==
    [][(/\ last'.op = "write_to_database" /\ last.op # "write_to_database"
        /\ Len(db'.price_history) > Len(db.price_history)) =>
           /\ existing_lists(db', last'.username) = Range(last'.lists)
           /\ \A i \in 1..Len(db.user_lists) :
                  (/\ db.user_lists[i].username = last'.username
                   /\ db.user_lists[i].list_name \in Range(last'.lists)
                   /\ db.user_lists[i].removed_at = NULL) =>
                      db'.user_lists[i].removed_at = NULL]_vars

\* ------------------------------------------------ claims: user_count
\* The price_history rows that carry a run id.
run_rows(d, run_id) ==
    {i \in 1..Len(d.price_history) : d.price_history[i].scrape_run_id = run_id}

\* C34: the user_count of a closed scrape_runs row is the number of
\* price_history rows that carry the run's id, also for runs in which an
\* upsert failed.
C34_UserCountIsRowCount ==
    \A run_id \in 1..Len(db.scrape_runs) :
        db.scrape_runs[run_id].status # "running" =>
            db.scrape_runs[run_id].user_count = Cardinality(run_rows(db, run_id))

\* ------------------------------------------------ claims: offer and state
\* C35: on every label for which get_offer returns an offer and
\* get_subscription_status a state other than INVALID, get_offer returns
\* SUBSCRIBED if and only if get_subscription_status returns SUBSCRIBED.
C35_OfferAgreesWithStatus ==
    (/\ parse # NoParse
     /\ parse.offer # PriceNotFoundError
     /\ parse.status # "INVALID") =>
        (parse.offer = "SUBSCRIBED" <=> parse.status = "SUBSCRIBED")

\* ------------------------------------------------ claims: the frame of upsert_user
\* The price_history rows of a username, in rowid order.
observations(d, username) ==
    SelectSeq(d.price_history, LAMBDA row : row.username = username)

\* C36: an upsert_user call for a username changes data of that username
\* only: the users row, the price_history rows and the user_lists rows of
\* every other username, and every scrape_runs row, are after the call what
\* they were before it.
C36_UpsertFrame ==
    [][UpsertCommitted =>
           /\ db'.scrape_runs = db.scrape_runs
           /\ \A other \in Usernames \ {last'.username} :
                  /\ existing_user(db', other) = existing_user(db, other)
                  /\ observations(db', other) = observations(db, other)
                  /\ memberships(db', other) = memberships(db, other)]_vars

\* alice and bob were both in A, and the latest call took alice out of A:
\* bob's membership of A is open.
C36_Witness ==
    /\ last.op = "upsert_user" /\ last.fail_at = 0
    /\ last.username = "alice" /\ last.lists = <<>>
    /\ \E i \in pair_rows(db, "alice", "A") : db.user_lists[i].removed_at = clock
    /\ existing_lists(db, "bob") = {"A"}
    /\ existing_user(db, "bob") # {}

====
